---- MODULE Spec2Model ----
(***************************************************************************)
(* A model of the reactivity core, the scheduler, the keyed child diff,    *)
(* the Suspense boundary, KeepAlive, the effect scopes and the reactive    *)
(* array of the runtime.                                                   *)
(*                                                                         *)
(* Part 1, reactivity: ReactiveEffect (run / stop), the Dep markers w / n, *)
(* track / trigger, and a computed ref.  Calls are synchronous in the      *)
(* code, so the model keeps an explicit call stack (frames): the function  *)
(* of a running effect, the plain call of a stopped effect's function and  *)
(* the loop of triggerEffects are frames; one action is one call or one    *)
(* loop iteration made by the code on top of the stack.                    *)
(***************************************************************************)
EXTENDS Integers, Sequences, FiniteSets, TLC

(***************************************************************************)
(* Bounds of the model.                                                    *)
(***************************************************************************)
\* calls (reads, writes, run, stop) the effect functions make in total while
\* one call of the script is in progress
MaxOps == 2

(***************************************************************************)
(* The effects and the reactive slots (target, key) of the scenario.       *)
(*   "tern" : effect(() => state.cond ? state.a : state.b)                 *)
(*   "free" : an effect whose function may read, write, stop and run       *)
(*   "comp" : the effect of c = computed(() => state.a)                    *)
(*   "guard": effect(() => { arr.length; ... }), which may throw           *)
(* A slot stands for its Dep: the Dep of state.cond, state.a, state.b, and *)
(* "c" for c.dep, the Dep of the computed ref.                             *)
(***************************************************************************)
Effects == {"tern", "free", "comp", "guard"}
StateSlots == {"cond", "a", "b"}
\* the keys of the reactive array of Part 8 that are read: length, the
\* first index, a string key and a symbol key
ArrSlots == {"length", "0", "foo", "sym"}
Slots == StateSlots \cup {"c"} \cup ArrSlots
NoEffect == "none"

\* effect.ts: const maxMarkerBits = 30
maxMarkerBits == 30

\* The scheduler option of each effect (ReactiveEffect constructor): only
\* ComputedRefImpl passes one.
hasScheduler(e) == e = "comp"
\* effect.allowRecurse is unset unless the creator sets it.
allowRecurse(e) == FALSE

VARIABLES
    active,           \* effect.active
    deps,             \* effect.deps: the Deps (slots) the effect holds, in order
    dep,              \* the Dep of a slot: a Set of effects, in insertion order
    depW,             \* dep.w, the wasTracked bitfield
    depN,             \* dep.n, the newTracked bitfield
    effectStack,      \* const effectStack
    activeEffect,     \* let activeEffect
    shouldTrack,      \* let shouldTrack
    trackStack,       \* const trackStack
    effectTrackDepth, \* let effectTrackDepth
    trackOpBit,       \* let trackOpBit
    cond,             \* the value of state.cond
    frames,           \* the call stack, innermost call last
    reads,            \* per effect: slots tracked for it in its latest run
    everRead,         \* the slots the ternary effect's function ever read
    onStopCalls,      \* per effect: how often its onStop callback was called
    fuel,             \* calls the functions may still make in this script call
    dirty,            \* c._dirty
    stale,            \* c was never computed, or a slot its getter read changed
    \* the set trap (Part 2)
    tArray,           \* isArray(target)
    tShallow,         \* the proxy was made with the shallow handlers
    slot,             \* target[key]: a number, a ref, a readonly proxy or absent
    refValue,         \* ref._rawValue of each ref
    setOp,            \* the latest operation on the proxy and what it did
    \* the scheduler (Part 3)
    queue,                    \* const queue
    flushIndex,               \* let flushIndex
    isFlushing,               \* let isFlushing
    isFlushPending,           \* let isFlushPending
    pendingPreFlushCbs,       \* const pendingPreFlushCbs
    activePreFlushCbs,        \* let activePreFlushCbs
    preFlushIndex,            \* let preFlushIndex
    pendingPostFlushCbs,      \* const pendingPostFlushCbs
    activePostFlushCbs,       \* let activePostFlushCbs
    postFlushIndex,           \* let postFlushIndex
    currentPreFlushParentJob, \* let currentPreFlushParentJob
    jobActive,        \* update.active of each component's update job
    callStack,        \* jobs, callbacks and nested pre-flushes in progress
    flushPc,          \* where flushJobs stands: idle, pre, main or post
    schedFuel,        \* calls the script, or the jobs of a flush, may still make
    ran,              \* the jobs this flushJobs call has run from the queue, in order
    unmountedNow,     \* the components unmounted during this flush
    scheduledFlushes, \* resolvedPromise.then(flushJobs) microtasks not yet run
    owed,             \* jobs and callbacks enqueued and not yet called
    seen,             \* the CountMap of the flushJobs call in progress
    drainSeen,        \* the CountMap of a pre-flush drain made by an update
    calls,            \* per job or callback: calls the loops of flushJobs made
    drainCalls,       \* per callback: calls an update's pre-flush drain made
    \* the keyed child diff (Part 4)
    children,         \* the vnodes the parent rendered last, with their el
    prevChildren,     \* the children before the latest patch
    host,             \* the child nodes of the container, in order
    mountCount,       \* per key: mounts made by the latest patch
    unmountCount,     \* per key: unmounts made by the latest patch
    moveCount,        \* per key: host moves made by the latest patch
    lastMap,          \* newIndexToOldIndexMap of the latest patch
    lastSeq,          \* increasingNewIndexSequence of the latest patch
    lastS2,           \* s2 of the latest patch
    \* Suspense (Part 5)
    suspense,         \* the SuspenseBoundary of the boundary's vnode
    instance,         \* the async components created below the boundary
    container,        \* the branches whose host nodes are in the container
    susPostCbs,       \* callbacks the boundary's code gave to queuePostFlushCb
    resolveCount,     \* per pendingId: calls of suspense.resolve
    leftBehind,       \* dependencies that were awaited when resolve was called
    thrown,           \* the message of the Error a handler threw, or ""
    susMounted,       \* mountSuspense was called
    susParents,       \* suspense.parent and its parents, the nearest first
    susReported,      \* components whose rejection was given to handleError
    \* KeepAlive (Part 6)
    kaMax,            \* props.max
    cache,            \* const cache: per cache key the cached vnode
    keys,             \* const keys: a Set, in insertion order
    current,          \* let current
    pendingCacheKey,  \* let pendingCacheKey
    subTree,          \* the vnode KeepAlive's instance.subTree holds
    vnodes,           \* the vnodes the slot made: key, type, component, flags
    comps,            \* the component instances mounted below KeepAlive
    kaPostCbs,        \* post-render effects queued by KeepAlive's subtree
    kaThrown,         \* the message of the error a render threw, or ""
    lastUse,          \* per cache key: the latest render that rendered it
    evicted,          \* the entry the latest render pruned
    \* effect scopes (Part 7)
    effectScopes,     \* per EffectScope: active, effects, cleanups, parent,
                      \* index, scopes
    \* the reactive array (Part 8)
    arrLength,        \* arr.length
    arrDepsMap,       \* the keys of the array's depsMap, in insertion order
    \* getSequence (Part 9)
    seqArr,           \* the argument of getSequence
    seqOut,           \* what getSequence returned for it, or <<-1>> before the call
    \* the unmount of KeepAlive (Part 6)
    kaUnmounted,      \* KeepAlive itself was unmounted
    \* scope.run (Part 7)
    activeEffectScope, \* let activeEffectScope
    effectScopeStack, \* const effectScopeStack
    scopeCalls,       \* the calls of scope.run in progress, innermost last
    scopeThrowing,    \* an error thrown by a function is propagating
    \* deferredComputed (Part 10)
    dcSource,         \* the reactive state the getter reads
    dcValue,          \* _value
    dcDirty,          \* _dirty
    dcDep,            \* this.dep: undefined, or the set of subscribed effects
    dcActive,         \* this.effect.active
    dcTracks,         \* this.effect is subscribed to the state it read
    dcScheduled,      \* let scheduled
    dcValueToCompare, \* valueToCompare of the queued job
    dcQueue,          \* const queue
    dcQueued,         \* let queued
    dcNotified,       \* the subscribers the latest flush triggered
    dcBefore,         \* the value of the getter before the first change of the tick
    dcBeforeSubscribed,\* the same for the first change that found this.dep set
    \* watch (Part 11)
    wJob,             \* where doWatch and the job of the watcher stand
    wQueued,          \* the job is in the queue of the pre-flush callbacks
    wChanged,         \* the source changed since the getter last ran
    wCalled,          \* the callback was invoked
    wCalledAfterStop  \* the callback was invoked after the stop handle

rxVars == <<active, deps, dep, depW, depN, effectStack, activeEffect,
            shouldTrack, trackStack, effectTrackDepth, trackOpBit, cond, frames,
            reads, everRead, onStopCalls, fuel, dirty, stale>>

setVars == <<tArray, tShallow, slot, refValue, setOp>>

schedVars == <<queue, flushIndex, isFlushing, isFlushPending,
               pendingPreFlushCbs, activePreFlushCbs, preFlushIndex,
               pendingPostFlushCbs, activePostFlushCbs, postFlushIndex,
               currentPreFlushParentJob, jobActive, callStack, flushPc,
               schedFuel, ran, unmountedNow, scheduledFlushes, owed, seen,
               drainSeen, calls, drainCalls>>

diffVars == <<children, prevChildren, host, mountCount, unmountCount,
              moveCount, lastMap, lastSeq, lastS2>>

susVars == <<suspense, instance, container, susPostCbs, resolveCount,
             leftBehind, thrown, susMounted, susParents, susReported>>

kaVars == <<kaMax, cache, keys, current, pendingCacheKey, subTree, vnodes,
            comps, kaPostCbs, kaThrown, lastUse, evicted>>

scopeVars == <<effectScopes>>

arrVars == <<arrLength, arrDepsMap>>

seqVars == <<seqArr, seqOut>>

kaEndVars == <<kaUnmounted>>

scopeRunVars == <<activeEffectScope, effectScopeStack, scopeCalls, scopeThrowing>>

dcVars == <<dcSource, dcValue, dcDirty, dcDep, dcActive, dcTracks, dcScheduled,
            dcValueToCompare, dcQueue, dcQueued, dcNotified, dcBefore,
            dcBeforeSubscribed>>

watchVars == <<wJob, wQueued, wChanged, wCalled, wCalledAfterStop>>

vars == <<rxVars, setVars, schedVars, diffVars, susVars, kaVars, scopeVars,
          arrVars,
          seqVars,
          kaEndVars,
          scopeRunVars,
          dcVars,
          watchVars>>

notRx == <<setVars, schedVars, diffVars, susVars, kaVars, scopeVars,
          arrVars,
          seqVars,
          kaEndVars,
          scopeRunVars,
          dcVars,
          watchVars>>
notSet == <<rxVars, schedVars, diffVars, susVars, kaVars, scopeVars,
          arrVars,
          seqVars,
          kaEndVars,
          scopeRunVars,
          dcVars,
          watchVars>>
notSched == <<rxVars, setVars, diffVars, susVars, kaVars, scopeVars,
          arrVars,
          seqVars,
          kaEndVars,
          scopeRunVars,
          dcVars,
          watchVars>>
notDiff == <<rxVars, setVars, schedVars, susVars, kaVars, scopeVars,
          arrVars,
          seqVars,
          kaEndVars,
          scopeRunVars,
          dcVars,
          watchVars>>
notSus == <<rxVars, setVars, schedVars, diffVars, kaVars, scopeVars,
          arrVars,
          seqVars,
          kaEndVars,
          scopeRunVars,
          dcVars,
          watchVars>>
notKa == <<rxVars, setVars, schedVars, diffVars, susVars, scopeVars,
          arrVars,
          seqVars,
          kaEndVars,
          scopeRunVars,
          dcVars,
          watchVars>>
\* the state an effect scope does not touch (it stops effects)
notRxScope == <<setVars, schedVars, diffVars, susVars, kaVars, arrVars,
          seqVars,
          kaEndVars,
          scopeRunVars,
          dcVars,
          watchVars>>
\* the state the unmount of KeepAlive does not touch
notKaEnd == <<rxVars, setVars, schedVars, diffVars, susVars, scopeVars,
          arrVars, seqVars,
          scopeRunVars,
          dcVars,
          watchVars>>
\* the state a call of getSequence does not touch
notSeq == <<rxVars, setVars, schedVars, diffVars, susVars, kaVars, scopeVars,
          arrVars,
          kaEndVars,
          scopeRunVars,
          dcVars,
          watchVars>>
\* the state a call on the reactive array does not touch
notRxArr == <<setVars, schedVars, diffVars, susVars, kaVars, scopeVars,
          seqVars,
          kaEndVars,
          scopeRunVars,
          dcVars,
          watchVars>>

(***************************************************************************)
(* Sets kept in insertion order (a JavaScript Set) and bitfields.          *)
(***************************************************************************)
Range(s) == {s[i] : i \in 1..Len(s)}

SetAdd(s, x) == IF x \in Range(s) THEN s ELSE Append(s, x)

SetDelete(s, x) == SelectSeq(s, LAMBDA y : y # x)

\* (x & bit) > 0 for a one-bit mask
BitAnd(x, bit) == IF (x \div bit) % 2 = 1 THEN bit ELSE 0

\* x | bit
BitOr(x, bit) == IF BitAnd(x, bit) > 0 THEN x ELSE x + bit

\* x & ~bit
BitClear(x, bit) == IF BitAnd(x, bit) > 0 THEN x - bit ELSE x

\* 1 << d; the shift count of << is taken modulo 32
Shl1(d) == 2 ^ (d % 32)

(***************************************************************************)
(* The engine state as one record, so that the code's functions compose.   *)
(***************************************************************************)
Engine == [active |-> active, deps |-> deps, dep |-> dep, depW |-> depW,
           depN |-> depN, effectStack |-> effectStack,
           activeEffect |-> activeEffect, shouldTrack |-> shouldTrack,
           trackStack |-> trackStack, effectTrackDepth |-> effectTrackDepth,
           trackOpBit |-> trackOpBit, onStopCalls |-> onStopCalls]

Commit(E) ==
    /\ active' = E.active
    /\ deps' = E.deps
    /\ dep' = E.dep
    /\ depW' = E.depW
    /\ depN' = E.depN
    /\ effectStack' = E.effectStack
    /\ activeEffect' = E.activeEffect
    /\ shouldTrack' = E.shouldTrack
    /\ trackStack' = E.trackStack
    /\ effectTrackDepth' = E.effectTrackDepth
    /\ trackOpBit' = E.trackOpBit
    /\ onStopCalls' = E.onStopCalls

(***************************************************************************)
(* dep.ts                                                                  *)
(***************************************************************************)
wasTracked(E, s) == BitAnd(E.depW[s], E.trackOpBit) > 0

newTracked(E, s) == BitAnd(E.depN[s], E.trackOpBit) > 0

initDepMarkers(E, e) ==
    [E EXCEPT !.depW = [s \in Slots |->
        IF s \in Range(E.deps[e]) THEN BitOr(@[s], E.trackOpBit) ELSE @[s]]]

\* The loop of finalizeDepMarkers from index i on; kept is deps[0..ptr-1].
RECURSIVE finalizeLoop(_, _, _, _)
finalizeLoop(E, e, i, kept) ==
    IF i > Len(E.deps[e])
    THEN [E EXCEPT !.deps[e] = kept]
    ELSE LET s == E.deps[e][i]
             drop == wasTracked(E, s) /\ ~newTracked(E, s)
             E1 == [E EXCEPT
                      !.dep[s] = IF drop THEN SetDelete(@, e) ELSE @,
                      !.depW[s] = BitClear(@, E.trackOpBit),
                      !.depN[s] = BitClear(@, E.trackOpBit)]
         IN  finalizeLoop(E1, e, i + 1, IF drop THEN kept ELSE Append(kept, s))

finalizeDepMarkers(E, e) ==
    IF Len(E.deps[e]) > 0 THEN finalizeLoop(E, e, 1, <<>>) ELSE E

(***************************************************************************)
(* effect.ts                                                               *)
(***************************************************************************)
cleanupEffect(E, e) ==
    [E EXCEPT !.dep = [s \in Slots |->
                         IF s \in Range(E.deps[e]) THEN SetDelete(@[s], e) ELSE @[s]],
              !.deps[e] = <<>>]

stop(E, e) ==
    IF E.active[e]
    THEN [cleanupEffect(E, e) EXCEPT !.onStopCalls[e] = @ + 1,
                                      !.active[e] = FALSE]
    ELSE E

pauseTracking(E) ==
    [E EXCEPT !.trackStack = Append(@, E.shouldTrack), !.shouldTrack = FALSE]

enableTracking(E) ==
    [E EXCEPT !.trackStack = Append(@, E.shouldTrack), !.shouldTrack = TRUE]

resetTracking(E) ==
    IF Len(E.trackStack) = 0
    THEN [E EXCEPT !.shouldTrack = TRUE]
    ELSE [E EXCEPT !.shouldTrack = E.trackStack[Len(E.trackStack)],
                   !.trackStack = SubSeq(@, 1, Len(@) - 1)]

isTracking(E) == E.shouldTrack /\ E.activeEffect # NoEffect

trackEffects(E, s) ==
    LET e == E.activeEffect
        fast == E.effectTrackDepth <= maxMarkerBits
        mark == fast /\ ~newTracked(E, s)
        E1 == IF mark THEN [E EXCEPT !.depN[s] = BitOr(@, E.trackOpBit)] ELSE E
        should == IF fast
                  THEN mark /\ ~wasTracked(E, s)
                  ELSE e \notin Range(E.dep[s])
    IN  IF should
        THEN [E1 EXCEPT !.dep[s] = SetAdd(@, e), !.deps[e] = Append(@, s)]
        ELSE E1

track(E, s) == IF isTracking(E) THEN trackEffects(E, s) ELSE E

\* run(), up to the call of this.fn(), for an active effect not on the stack
runEnter(E, e) ==
    LET E1 == enableTracking([E EXCEPT !.effectStack = Append(@, e),
                                       !.activeEffect = e])
        d == E.effectTrackDepth + 1
        E2 == [E1 EXCEPT !.effectTrackDepth = d, !.trackOpBit = Shl1(d)]
    IN  IF d <= maxMarkerBits THEN initDepMarkers(E2, e) ELSE cleanupEffect(E2, e)

\* the finally block of run()
runFinally(E, e) ==
    LET E1 == IF E.effectTrackDepth <= maxMarkerBits
              THEN finalizeDepMarkers(E, e) ELSE E
        d == E.effectTrackDepth - 1
        E2 == resetTracking([E1 EXCEPT !.effectTrackDepth = d,
                                       !.trackOpBit = Shl1(d)])
        st == SubSeq(E2.effectStack, 1, Len(E2.effectStack) - 1)
    IN  [E2 EXCEPT !.effectStack = st,
                   !.activeEffect = IF Len(st) > 0 THEN st[Len(st)] ELSE NoEffect]


(***************************************************************************)
(* The call stack.                                                         *)
(***************************************************************************)
\* kind: "run" the function of a running effect, "plain" the function of a
\* stopped effect called by run(), "trig" the loop of triggerEffects over
\* rest.  left: the reads the ternary function or the getter still has to
\* make (two and one).  at: the tracking state when the call was made.
Saved ==
    [activeEffect |-> activeEffect, shouldTrack |-> shouldTrack,
     trackStack |-> trackStack, effectStack |-> effectStack,
     effectTrackDepth |-> effectTrackDepth, trackOpBit |-> trackOpBit]

Frame(k, e, rest) ==
    [kind |-> k, e |-> e, left |-> IF e = "tern" THEN 2 ELSE 1, rest |-> rest,
     at |-> Saved]

Top == frames[Len(frames)]

Pop == SubSeq(frames, 1, Len(frames) - 1)

\* a script outside any effect is running
InScript == Len(frames) = 0

\* the function of an effect is running (as an effect, or called plainly)
InFn == Len(frames) > 0 /\ Top.kind \in {"run", "plain"}

\* Code that may make any call now (read and write state, run and stop
\* effects, read c.value): a script or the free function.
CanAct == InScript \/ (InFn /\ Top.e = "free" /\ fuel > 0)

\* the budget after the code on top of the stack made one call
Spent == IF InScript THEN MaxOps ELSE fuel - 1

\* the budget once the frames fs are left: a new script call starts afresh
Refuel(fs) == IF Len(fs) = 0 THEN MaxOps ELSE fuel

\* run() without the test of this.active
runIgnoringActive(E, fs, e) ==
    IF e \notin Range(E.effectStack)
    THEN [E |-> runEnter(E, e), frames |-> Append(fs, Frame("run", e, <<>>)),
          entered |-> TRUE, called |-> TRUE]
    ELSE [E |-> E, frames |-> fs, entered |-> FALSE, called |-> FALSE]

\* The call effect.run() made with the frames fs: the new engine state and
\* call stack.  A stopped effect's function is called plainly; a running
\* effect (one on the effectStack) is not run again.
run(E, fs, e) ==
    IF ~E.active[e]
    THEN [E |-> E, frames |-> Append(fs, Frame("plain", e, <<>>)),
          entered |-> FALSE, called |-> TRUE]
    ELSE IF e \notin Range(E.effectStack)
    THEN [E |-> runEnter(E, e), frames |-> Append(fs, Frame("run", e, <<>>)),
          entered |-> TRUE, called |-> TRUE]
    ELSE [E |-> E, frames |-> fs, entered |-> FALSE, called |-> FALSE]

\* the slots tracked for e in its latest run start empty when a run starts
ReadsAfterRun(r, e) == IF r.entered THEN [reads EXCEPT ![e] = {}] ELSE reads

EngineUnchanged ==
    UNCHANGED <<active, deps, dep, depW, depN, effectStack, activeEffect,
                shouldTrack, trackStack, effectTrackDepth, trackOpBit,
                onStopCalls>>

InitRx ==
    /\ active = [e \in Effects |-> TRUE]
    /\ deps = [e \in Effects |-> <<>>]
    /\ dep = [s \in Slots |-> <<>>]
    /\ depW = [s \in Slots |-> 0]
    /\ depN = [s \in Slots |-> 0]
    /\ effectStack = <<>>
    /\ activeEffect = NoEffect
    /\ shouldTrack = TRUE
    /\ trackStack = <<>>
    /\ effectTrackDepth = 0
    /\ trackOpBit = 1
    /\ cond \in BOOLEAN
    /\ frames = <<>>
    /\ reads = [e \in Effects |-> {}]
    /\ everRead = {}
    /\ onStopCalls = [e \in Effects |-> 0]
    /\ fuel = MaxOps
    /\ dirty = TRUE
    /\ stale = TRUE

\* A read of state[s] or of c.value by the code on top of the stack, as far
\* as tracking goes: track(target, GET, s), trackRefValue(c).
ReadBy(E, s) ==
    /\ Commit(track(E, s))
    /\ reads' = IF isTracking(E)
                THEN [reads EXCEPT ![E.activeEffect] = @ \cup {s}]
                ELSE reads

\* A script or the free function reads state[s].
Track(s) ==
    /\ UNCHANGED notRx
    /\ CanAct
    /\ ReadBy(Engine, s)
    /\ fuel' = Spent
    /\ UNCHANGED <<cond, frames, everRead, dirty, stale>>

\* The ternary function: state.cond, then state.a or state.b.
TernRead ==
    /\ UNCHANGED notRx
    /\ InFn /\ Top.e = "tern" /\ Top.left > 0
    /\ LET s == IF Top.left = 2 THEN "cond" ELSE IF cond THEN "a" ELSE "b"
       IN  /\ ReadBy(Engine, s)
           /\ everRead' = everRead \cup {s}
    /\ frames' = [frames EXCEPT ![Len(frames)].left = @ - 1]
    /\ UNCHANGED <<cond, fuel, dirty, stale>>

\* The getter of the computed ref: state.a.
GetterRead ==
    /\ UNCHANGED notRx
    /\ InFn /\ Top.e = "comp" /\ Top.left > 0
    /\ ReadBy(Engine, "a")
    /\ frames' = [frames EXCEPT ![Len(frames)].left = @ - 1]
    /\ UNCHANGED <<cond, everRead, fuel, dirty, stale>>

\* state[s] = <a changed value>: the set trap's trigger(target, SET, s).
\* deps holds the one Dep of the key, so triggerEffects gets that Dep and
\* iterates over a copy of it.
Trigger(s) ==
    /\ UNCHANGED notRx
    /\ CanAct
    /\ frames' = Append(frames, Frame("trig", NoEffect, dep[s]))
    /\ fuel' = Spent
    /\ cond' = IF s = "cond" THEN ~cond ELSE cond
    /\ stale' = (stale \/ (s \in reads["comp"] /\ "comp" \notin Range(effectStack)))
    /\ EngineUnchanged
    /\ UNCHANGED <<reads, everRead, dirty>>

\* One iteration of the loop of triggerEffects, or its end.  The scheduler
\* is the one of ComputedRefImpl: if (!_dirty) { _dirty = true;
\* triggerRefValue(this) }, which is triggerEffects(c.dep).
TriggerStep ==
    /\ UNCHANGED notRx
    /\ Len(frames) > 0 /\ Top.kind = "trig"
    /\ IF Len(Top.rest) = 0
       THEN /\ frames' = Pop
            /\ EngineUnchanged
            /\ UNCHANGED <<reads, dirty>>
       ELSE LET e == Head(Top.rest)
                fs == [frames EXCEPT ![Len(frames)].rest = Tail(@)]
            IN  IF e # activeEffect \/ allowRecurse(e)
                THEN IF hasScheduler(e)
                     THEN /\ dirty' = TRUE
                          /\ frames' = IF dirty THEN fs
                                       ELSE Append(fs, Frame("trig", NoEffect, dep["c"]))
                          /\ EngineUnchanged
                          /\ UNCHANGED reads
                     ELSE LET r == run(Engine, fs, e)
                          IN  /\ Commit(r.E)
                              /\ frames' = r.frames
                              /\ reads' = ReadsAfterRun(r, e)
                              /\ UNCHANGED dirty
                ELSE /\ frames' = fs
                     /\ EngineUnchanged
                     /\ UNCHANGED <<reads, dirty>>
    /\ fuel' = Refuel(frames')
    /\ UNCHANGED <<cond, everRead, stale>>

\* A script or the free function calls effect.run() (the runner).
CallRun(e) ==
    /\ UNCHANGED notRx
    /\ CanAct
    /\ LET r == run(Engine, frames, e)
       IN  /\ Commit(r.E)
           /\ frames' = r.frames
           /\ reads' = ReadsAfterRun(r, e)
    /\ fuel' = Spent
    /\ UNCHANGED <<cond, everRead, dirty, stale>>

\* A script or the free function calls effect.stop().
CallStop(e) ==
    /\ UNCHANGED notRx
    /\ CanAct
    /\ Commit(stop(Engine, e))
    /\ fuel' = Spent
    /\ UNCHANGED <<cond, frames, reads, everRead, dirty, stale>>

\* The function on top of the stack returns: the finally block of run()
\* for a running effect, nothing more for a plain call.
FnReturn ==
    /\ UNCHANGED notRx
    /\ InFn
    /\ Top.e \in {"tern", "comp", "guard"} => Top.left = 0
    /\ IF Top.kind = "run"
       THEN Commit(runFinally(Engine, Top.e))
       ELSE EngineUnchanged
    /\ frames' = Pop
    /\ fuel' = Refuel(Pop)
    /\ UNCHANGED <<cond, reads, everRead, dirty, stale>>

\* A script or the free function reads c.value (ComputedRefImpl get value):
\* trackRefValue(self), then, if dirty, _dirty = false and effect.run().
ReadComputed ==
    /\ UNCHANGED notRx
    /\ CanAct
    /\ LET E1 == track(Engine, "c")
           r == IF dirty THEN run(E1, frames, "comp")
                ELSE [E |-> E1, frames |-> frames, entered |-> FALSE,
                      called |-> FALSE]
       IN  /\ Commit(r.E)
           /\ frames' = r.frames
           /\ reads' = [ReadsAfterRun(r, "comp") EXCEPT
                          ![activeEffect] = IF isTracking(Engine)
                                            THEN @ \cup {"c"} ELSE @]
           /\ stale' = (stale /\ ~r.called)
    /\ dirty' = FALSE
    /\ fuel' = Spent
    /\ UNCHANGED <<cond, everRead>>

notScopeRun == <<rxVars, setVars, schedVars, diffVars, susVars, kaVars,
                 scopeVars, arrVars, seqVars, kaEndVars,
          dcVars,
          watchVars>>

notDc == <<rxVars, setVars, schedVars, diffVars, susVars, kaVars, scopeVars,
           arrVars, seqVars, kaEndVars, scopeRunVars,
          watchVars>>

notRxWatch == <<setVars, schedVars, diffVars, susVars, kaVars, scopeVars,
                arrVars, seqVars, kaEndVars, scopeRunVars, dcVars>>
(***************************************************************************)
(* Part 2, the set trap of a reactive proxy (createSetter) and the refs it *)
(* may find in a slot.  One target with two keys; a slot holds a number, a *)
(* ref, a readonly proxy of an object, or nothing.                         *)
(***************************************************************************)
Keys == {0, 1}
Nums == {"1", "2"}
Refs == {"r1", "r2"}
\* readonly({}): an object for which isReadonly() is true and isRef() false
ReadonlyProxy == "ro"
Absent == "absent"
Values == Nums \cup Refs \cup {ReadonlyProxy}

isRef(v) == v \in Refs

isReadonly(v) == v = ReadonlyProxy

\* @vue/shared: the value differs (Object.is)
hasChanged(value, oldValue) == value # oldValue

\* target.length of the array target: one past the last index in use
arrayLength == IF slot[1] # Absent THEN 2 ELSE IF slot[0] # Absent THEN 1 ELSE 0

\* hadKey of the set trap; both keys are integer keys
hadKey(key) == IF tArray THEN key < arrayLength ELSE slot[key] # Absent

\* RefImpl set value(newVal): the new _rawValue of the refs and whether
\* triggerRefValue was called
RefImplSet(r, newVal) ==
    IF hasChanged(newVal, refValue[r])
    THEN [refValue |-> [refValue EXCEPT ![r] = newVal], trig |-> "ref"]
    ELSE [refValue |-> refValue, trig |-> "none"]

\* set(target, key, value, receiver) with the proxy as receiver: the new
\* slots, the new ref values and the trigger made.
setWithoutRefBranch(shallow, key, value) ==
    [slot |-> [slot EXCEPT ![key] = value], refValue |-> refValue,
     trig |-> IF ~hadKey(key) THEN "ADD"
              ELSE IF hasChanged(value, slot[key]) THEN "SET" ELSE "none"]

createSetter(shallow, key, value) ==
    LET oldValue == slot[key]
    IN  IF /\ ~shallow /\ ~isReadonly(value)
           /\ ~tArray /\ isRef(oldValue) /\ ~isRef(value)
        THEN LET w == RefImplSet(oldValue, value)
             IN  [slot |-> slot, refValue |-> w.refValue, trig |-> w.trig]
        ELSE [slot |-> [slot EXCEPT ![key] = value], refValue |-> refValue,
              trig |-> IF ~hadKey(key) THEN "ADD"
                       ELSE IF hasChanged(value, oldValue) THEN "SET"
                       ELSE "none"]

\* get(target, key, receiver): what reading proxy[key] returns
createGetter(shallow, key) ==
    LET res == slot[key]
    IN  IF shallow THEN res
        ELSE IF isRef(res)
        THEN (IF ~tArray THEN refValue[res] ELSE res)
        ELSE res

InitSetter ==
    /\ tArray \in BOOLEAN
    /\ tShallow \in BOOLEAN
    /\ slot = [k \in Keys |-> Absent]
    /\ refValue \in [Refs -> Nums]
    /\ setOp = [kind |-> "none", key |-> 0, val |-> Absent, old |-> Absent,
                trig |-> "none"]

\* proxy[key] = value
SetProp(key, value) ==
    /\ LET r == createSetter(tShallow, key, value)
       IN  /\ slot' = r.slot
           /\ refValue' = r.refValue
           /\ setOp' = [kind |-> "set", key |-> key, val |-> value,
                        old |-> slot[key], trig |-> r.trig]
    /\ UNCHANGED <<tArray, tShallow>>
    /\ UNCHANGED notSet

\* ref.value = n, on the ref itself
SetRefValue(r, n) ==
    /\ LET w == RefImplSet(r, n)
       IN  /\ refValue' = w.refValue
           /\ setOp' = [kind |-> "refset", key |-> 0, val |-> n, old |-> r,
                        trig |-> w.trig]
    /\ UNCHANGED <<tArray, tShallow, slot>>
    /\ UNCHANGED notSet

(***************************************************************************)
(* Part 3, the scheduler: the main queue of jobs, the pre-flush and the    *)
(* post-flush callbacks, and flushJobs.  The jobs are the update jobs of   *)
(* three components, 1 the parent of 2 and 2 the parent of 3; update.id is *)
(* the uid of the instance, so a parent has the lower id.  flushJobs calls *)
(* jobs and callbacks, which call back into the scheduler, so it is        *)
(* modelled step by step with an explicit stack of the calls in progress.  *)
(***************************************************************************)
Jobs == {1, 2, 3}
NoJob == 0
parentOf(c) == c - 1
Ancestors(c) == {p \in Jobs : p < c}
\* the job of a watcher with a callback, queued with queuePreFlushCb
PreCbs == {11}
\* an updated hook queued with queuePostFlushCb
PostCbs == {12}
\* doSet of a template ref, queued with queuePostFlushCb; its id is -1
RefSetters == {13}
\* () => { instance.isUnmounted = true } of component c
unmountedCb(c) == 20 + c
\* activePreFlushCbs / activePostFlushCbs = null
NullCbs == <<0>>
\* Infinity
Infinity == 1000

\* everything the loops of the scheduler call
Callables ==
    Jobs \cup PreCbs \cup PostCbs \cup RefSetters
         \cup {unmountedCb(c) : c \in Jobs}
\* const RECURSION_LIMIT = 100
RECURSION_LIMIT == 100
\* new Map()
NewCountMap == [fn \in Callables |-> 0]

\* the limit is not enforced
checkNothing(seenMap, fn) == [skip |-> FALSE, seen |-> seenMap]

\* checkRecursiveUpdates(seen, fn): whether fn is to be skipped, and the map
checkRecursiveUpdates(seenMap, fn) ==
    IF seenMap[fn] = 0
    THEN [skip |-> FALSE, seen |-> [seenMap EXCEPT ![fn] = 1]]
    ELSE IF seenMap[fn] > RECURSION_LIMIT
    THEN [skip |-> TRUE, seen |-> seenMap]
    ELSE [skip |-> FALSE, seen |-> [seenMap EXCEPT ![fn] = @ + 1]]

getId(job) ==
    IF job \in Jobs THEN job ELSE IF job \in RefSetters THEN -1 ELSE Infinity

\* update.allowRecurse = true, and job.allowRecurse = !!cb of a watcher's
\* job; the hooks queued as post-flush callbacks do not set it
jobAllowRecurse(job) == job \in Jobs \cup PreCbs

\* Array.prototype.includes(x, fromIndex), indexOf and splice, 0-based
includes(arr, x, fromIndex) ==
    \E i \in 1..Len(arr) : i > fromIndex /\ arr[i] = x

indexOf(arr, x) ==
    IF \E i \in 1..Len(arr) : arr[i] = x
    THEN (CHOOSE i \in 1..Len(arr) :
              arr[i] = x /\ \A j \in 1..(i - 1) : arr[j] # x) - 1
    ELSE -1

spliceIn(arr, index, x) ==
    LET i == IF index > Len(arr) THEN Len(arr) ELSE index
    IN  SubSeq(arr, 1, i) \o <<x>> \o SubSeq(arr, i + 1, Len(arr))

spliceOut(arr, index) ==
    SubSeq(arr, 1, index) \o SubSeq(arr, index + 2, Len(arr))

\* [...new Set(arr)]
RECURSIVE dedupe(_)
dedupe(arr) ==
    IF arr = <<>> THEN <<>>
    ELSE LET front == dedupe(SubSeq(arr, 1, Len(arr) - 1))
             x == arr[Len(arr)]
         IN  IF includes(front, x, 0) THEN front ELSE Append(front, x)

\* arr.sort((a, b) => getId(a) - getId(b)), a stable sort
RECURSIVE sortById(_)
sortById(arr) ==
    IF arr = <<>> THEN <<>>
    ELSE LET front == sortById(SubSeq(arr, 1, Len(arr) - 1))
             x == arr[Len(arr)]
             n == Cardinality({i \in 1..Len(front) : getId(front[i]) <= getId(x)})
         IN  spliceIn(front, n, x)

\* the module-level state of the scheduler and the active flags of the jobs
Sched ==
    [queue |-> queue, flushIndex |-> flushIndex, isFlushing |-> isFlushing,
     isFlushPending |-> isFlushPending,
     pendingPreFlushCbs |-> pendingPreFlushCbs,
     activePreFlushCbs |-> activePreFlushCbs, preFlushIndex |-> preFlushIndex,
     pendingPostFlushCbs |-> pendingPostFlushCbs,
     activePostFlushCbs |-> activePostFlushCbs,
     postFlushIndex |-> postFlushIndex,
     currentPreFlushParentJob |-> currentPreFlushParentJob,
     jobActive |-> jobActive,
     scheduledFlushes |-> scheduledFlushes, owed |-> owed]

CommitSched(S) ==
    /\ queue' = S.queue
    /\ flushIndex' = S.flushIndex
    /\ isFlushing' = S.isFlushing
    /\ isFlushPending' = S.isFlushPending
    /\ pendingPreFlushCbs' = S.pendingPreFlushCbs
    /\ activePreFlushCbs' = S.activePreFlushCbs
    /\ preFlushIndex' = S.preFlushIndex
    /\ pendingPostFlushCbs' = S.pendingPostFlushCbs
    /\ activePostFlushCbs' = S.activePostFlushCbs
    /\ postFlushIndex' = S.postFlushIndex
    /\ currentPreFlushParentJob' = S.currentPreFlushParentJob
    /\ jobActive' = S.jobActive
    /\ scheduledFlushes' = S.scheduledFlushes
    /\ owed' = S.owed

\* the binary search of findInsertionIndex, on 0-based indexes
RECURSIVE searchLoop(_, _, _, _)
searchLoop(q, start, end, id) ==
    IF start < end
    THEN LET middle == (start + end) \div 2
         IN  IF getId(q[middle + 1]) < id
             THEN searchLoop(q, middle + 1, end, id)
             ELSE searchLoop(q, start, middle, id)
    ELSE start

\* the job is put right behind the job that is running, whatever its id
insertNext(S, id) == IF Len(S.queue) = 0 THEN 0 ELSE S.flushIndex + 1

\* the job is put at the end of the queue, whatever its id
insertAtEnd(S, id) == Len(S.queue)

findInsertionIndex(S, id) ==
    searchLoop(S.queue, S.flushIndex + 1, Len(S.queue), id)

\* a flush is scheduled whatever the flags say
queueFlushAlways(S) ==
    [S EXCEPT !.isFlushPending = TRUE, !.scheduledFlushes = @ + 1]

queueFlush(S) ==
    IF ~S.isFlushing /\ ~S.isFlushPending
    THEN [S EXCEPT !.isFlushPending = TRUE, !.scheduledFlushes = @ + 1]
    ELSE S

\* every job of the model has an id, so the splice branch is the one taken
queueJob(S, job) ==
    IF /\ \/ Len(S.queue) = 0
          \/ ~includes(S.queue, job,
                       IF S.isFlushing /\ jobAllowRecurse(job)
                       THEN S.flushIndex + 1 ELSE S.flushIndex)
       /\ job # S.currentPreFlushParentJob
    THEN queueFlush([S EXCEPT
             !.queue = spliceIn(S.queue, findInsertionIndex(S, getId(job)), job),
             !.owed = @ \cup {job}])
    ELSE S

invalidateJob(S, job) ==
    LET i == indexOf(S.queue, job)
    IN  IF i > S.flushIndex
        THEN [S EXCEPT !.queue = spliceOut(S.queue, i),
                       !.owed = IF includes(spliceOut(S.queue, i), job, 0)
                                THEN @ ELSE @ \ {job}]
        ELSE S

\* queueCb with a single callback: whether it is pushed
queueCbPushes(cb, activeQueue, index) ==
    \/ activeQueue = NullCbs
    \/ ~includes(activeQueue, cb,
                 IF jobAllowRecurse(cb) THEN index + 1 ELSE index)

queuePreFlushCb(S, cb) ==
    queueFlush(
        IF queueCbPushes(cb, S.activePreFlushCbs, S.preFlushIndex)
        THEN [S EXCEPT !.pendingPreFlushCbs = Append(@, cb),
                       !.owed = @ \cup {cb}]
        ELSE S)

queuePostFlushCb(S, cb) ==
    queueFlush(
        IF queueCbPushes(cb, S.activePostFlushCbs, S.postFlushIndex)
        THEN [S EXCEPT !.pendingPostFlushCbs = Append(@, cb),
                       !.owed = @ \cup {cb}]
        ELSE S)

\* unmountComponent(instance) for component c: the update job goes
\* inactive, the components of its subTree are unmounted, and the callback
\* marking the instance unmounted is queued as a post-render effect
RECURSIVE unmountComponent(_, _)
unmountComponent(S, c) ==
    LET S1 == [S EXCEPT !.jobActive[c] = FALSE, !.owed = @ \ {c}]
        S2 == IF c + 1 \in Jobs /\ S1.jobActive[c + 1]
              THEN unmountComponent(S1, c + 1)
              ELSE S1
    IN  queuePostFlushCb(S2, unmountedCb(c))

(***************************************************************************)
(* The calls in progress.  A frame is a job (a component's update          *)
(* function, called from the queue or by its parent's update), a callback  *)
(* (called from the pre or the post batch), or the flushPreFlushCbs call a *)
(* component's update makes before it renders.                             *)
(***************************************************************************)
SFrame(kind, job, from) == [kind |-> kind, job |-> job, from |-> from]
STop == callStack[Len(callStack)]
SPop == SubSeq(callStack, 1, Len(callStack) - 1)

\* calls the script makes between two flushes
MaxScriptCalls == 3
\* calls the jobs and callbacks of one flush make in total
MaxFlushCalls == 2
\* the calls of a script that renders inside a callback
MaxNestedCalls == 5

\* the script, a job or a user callback is running and may call
SchedCanCall ==
    /\ schedFuel > 0
    /\ IF callStack = <<>>
       THEN flushPc = "idle"
       ELSE /\ STop.kind \in {"job", "cb"}
            /\ STop.job \in Jobs \cup PreCbs \cup PostCbs

\* flushPreFlushCbs(seen, parentJob) up to the first callback: whether a
\* batch was begun, and the state
beginPreFlush(S, parentJob) ==
    IF Len(S.pendingPreFlushCbs) > 0
    THEN [begun |-> TRUE,
          S |-> [S EXCEPT !.currentPreFlushParentJob = parentJob,
                          !.activePreFlushCbs = dedupe(S.pendingPreFlushCbs),
                          !.pendingPreFlushCbs = <<>>,
                          !.preFlushIndex = 0]]
    ELSE [begun |-> FALSE, S |-> S]

\* the pending pre-flush callbacks are left for later
enterWithoutPreFlush(S) ==
    [pc |-> "main",
     S |-> [S EXCEPT !.isFlushPending = FALSE, !.isFlushing = TRUE,
                     !.queue = sortById(@), !.flushIndex = 0]]

\* flushJobs from its start to the first callback or to the loop over the
\* queue: where it stands, and the state
enterFlushJobs(S) ==
    LET b == beginPreFlush([S EXCEPT !.isFlushPending = FALSE,
                                     !.isFlushing = TRUE], NoJob)
    IN  IF b.begun THEN [pc |-> "pre", S |-> b.S]
        ELSE [pc |-> "main",
              S |-> [b.S EXCEPT !.queue = sortById(@), !.flushIndex = 0]]

\* flushJobs returns without looking at what was queued meanwhile
finishWithoutFlushingAgain(S) ==
    [pc |-> "idle", S |-> [S EXCEPT !.isFlushing = FALSE]]

\* the end of flushJobs, after flushPostFlushCbs: flush again if anything
\* was queued meanwhile
finishFlush(S) ==
    LET S1 == [S EXCEPT !.isFlushing = FALSE]
    IN  IF \/ Len(S1.queue) > 0
           \/ Len(S1.pendingPreFlushCbs) > 0
           \/ Len(S1.pendingPostFlushCbs) > 0
        THEN enterFlushJobs(S1)
        ELSE [pc |-> "idle", S |-> S1]

\* the finally block of flushJobs up to the first post-flush callback, or
\* to its end when none is pending
finallyOfFlushJobs(S) ==
    LET S1 == [S EXCEPT !.flushIndex = 0, !.queue = <<>>]
    IN  IF Len(S1.pendingPostFlushCbs) > 0
        THEN [pc |-> "post",
              S |-> [S1 EXCEPT
                  !.activePostFlushCbs =
                      sortById(dedupe(S1.pendingPostFlushCbs)),
                  !.pendingPostFlushCbs = <<>>,
                  !.postFlushIndex = 0]]
        ELSE finishFlush(S1)

\* the bookkeeping of a step that may end the flush
FlushGoesOn(r) ==
    /\ flushPc' = r.pc
    /\ schedFuel' = IF r.pc = "idle" THEN MaxScriptCalls ELSE schedFuel
    /\ ran' = IF r.pc = "post" THEN ran ELSE <<>>
    /\ unmountedNow' = IF r.pc = "idle" THEN {} ELSE unmountedNow
    /\ seen' = IF r.pc = "idle" THEN NewCountMap ELSE seen
    /\ UNCHANGED <<calls, drainCalls>>
    /\ UNCHANGED drainSeen

InitSchedWith(calls0) ==
    /\ queue = <<>>
    /\ flushIndex = 0
    /\ isFlushing = FALSE
    /\ isFlushPending = FALSE
    /\ pendingPreFlushCbs = <<>>
    /\ activePreFlushCbs = NullCbs
    /\ preFlushIndex = 0
    /\ pendingPostFlushCbs = <<>>
    /\ activePostFlushCbs = NullCbs
    /\ postFlushIndex = 0
    /\ currentPreFlushParentJob = NoJob
    /\ jobActive = [j \in Jobs |-> TRUE]
    /\ callStack = <<>>
    /\ flushPc = "idle"
    /\ schedFuel = calls0
    /\ ran = <<>>
    /\ unmountedNow = {}
    /\ scheduledFlushes = 0
    /\ owed = {}
    /\ seen = NewCountMap
    /\ drainSeen = NewCountMap
    /\ calls = NewCountMap
    /\ drainCalls = NewCountMap

InitSched == InitSchedWith(MaxScriptCalls)

\* queueJob(instance.update), by the script, a job or a callback
QueueJob(job) ==
    /\ SchedCanCall
    /\ CommitSched(queueJob(Sched, job))
    /\ schedFuel' = schedFuel - 1
    /\ UNCHANGED <<callStack, flushPc, ran, unmountedNow, seen, drainSeen,
                   calls, drainCalls>>
    /\ UNCHANGED notSched

QueuePreFlushCb(cb) ==
    /\ SchedCanCall
    /\ CommitSched(queuePreFlushCb(Sched, cb))
    /\ schedFuel' = schedFuel - 1
    /\ UNCHANGED <<callStack, flushPc, ran, unmountedNow, seen, drainSeen,
                   calls, drainCalls>>
    /\ UNCHANGED notSched

QueuePostFlushCb(cb) ==
    /\ SchedCanCall
    /\ CommitSched(queuePostFlushCb(Sched, cb))
    /\ schedFuel' = schedFuel - 1
    /\ UNCHANGED <<callStack, flushPc, ran, unmountedNow, seen, drainSeen,
                   calls, drainCalls>>
    /\ UNCHANGED notSched

\* the update of a component unmounts its child component c
UnmountChild(c) ==
    /\ SchedCanCall
    /\ callStack # <<>> /\ STop.kind = "job" /\ STop.job = parentOf(c)
    /\ jobActive[c]
    /\ CommitSched(unmountComponent(Sched, c))
    /\ unmountedNow' = unmountedNow \cup {d \in Jobs : d >= c /\ jobActive[d]}
    /\ schedFuel' = schedFuel - 1
    /\ UNCHANGED <<callStack, flushPc, ran, seen, drainSeen, calls, drainCalls>>
    /\ UNCHANGED notSched

\* updateComponent: the update of a component updates its child component
\* c at once; the child's update starts with updateComponentPreRender
UpdateChild(c) ==
    /\ SchedCanCall
    /\ callStack # <<>> /\ STop.kind = "job" /\ STop.job = parentOf(c)
    /\ jobActive[c]
    /\ LET b == beginPreFlush(invalidateJob(Sched, c), c)
           called == Append(callStack, SFrame("job", c, "sync"))
       IN  /\ CommitSched(b.S)
           /\ callStack' = IF b.begun
                           THEN Append(called, SFrame("preflush", c, "sync"))
                           ELSE called
           /\ drainSeen' = IF b.begun THEN NewCountMap ELSE drainSeen
           /\ drainCalls' = IF b.begun THEN NewCountMap ELSE drainCalls
    /\ schedFuel' = schedFuel - 1
    /\ UNCHANGED <<flushPc, ran, unmountedNow, seen, calls>>
    /\ UNCHANGED notSched

\* the job or callback on top of the stack has enqueued itself again, if
\* the scheduler lets it
Requeued ==
    LET self == STop.job
    IN  IF STop.from = "sync" THEN TRUE
        ELSE IF self \in Jobs THEN includes(queue, self, flushIndex + 1)
        ELSE IF self \in PreCbs THEN includes(pendingPreFlushCbs, self, 0)
        ELSE TRUE

\* a job or a callback the loops called enqueues itself again, as it does
\* once every time it runs
RequeueSelf ==
    /\ callStack # <<>> /\ STop.kind \in {"job", "cb"}
    /\ STop.from \in {"queue", "pre", "post"}
    /\ ~Requeued
    /\ LET self == STop.job
       IN  CommitSched(IF self \in Jobs THEN queueJob(Sched, self)
                       ELSE IF self \in PreCbs THEN queuePreFlushCb(Sched, self)
                       ELSE queuePostFlushCb(Sched, self))
    /\ UNCHANGED <<callStack, flushPc, schedFuel, ran, unmountedNow, seen,
                   drainSeen, calls, drainCalls>>
    /\ UNCHANGED notSched

\* the microtask: flushJobs()
FlushJobs ==
    /\ flushPc = "idle" /\ callStack = <<>> /\ scheduledFlushes > 0
    /\ LET r == enterFlushJobs([Sched EXCEPT !.scheduledFlushes = @ - 1])
       IN  /\ CommitSched(r.S)
           /\ flushPc' = r.pc
    /\ schedFuel' = MaxFlushCalls
    /\ seen' = NewCountMap
    /\ calls' = NewCountMap
    /\ drainCalls' = NewCountMap
    /\ UNCHANGED <<callStack, ran, unmountedNow, drainSeen>>
    /\ UNCHANGED notSched

\* one turn of the loop of flushPreFlushCbs, or its end and the recursive
\* call; the call made by flushJobs goes on to sort the queue
PreFlushStep ==
    /\ activePreFlushCbs # NullCbs
    /\ \/ flushPc = "pre" /\ callStack = <<>>
       \/ callStack # <<>> /\ STop.kind = "preflush"
    /\ LET nested == callStack # <<>>
           parentJob == IF nested THEN STop.job ELSE NoJob
           b == beginPreFlush([Sched EXCEPT !.activePreFlushCbs = NullCbs,
                                            !.preFlushIndex = 0,
                                            !.currentPreFlushParentJob = NoJob],
                              parentJob)
       IN  IF preFlushIndex < Len(activePreFlushCbs)
           THEN LET cb == activePreFlushCbs[preFlushIndex + 1]
                    r == checkRecursiveUpdates(
                             IF nested THEN drainSeen ELSE seen, cb)
                IN  /\ CommitSched([Sched EXCEPT
                           !.preFlushIndex = IF r.skip THEN @ + 1 ELSE @,
                           !.owed = @ \ {cb}])
                    /\ callStack' = IF r.skip THEN callStack
                                    ELSE Append(callStack, SFrame("cb", cb, "pre"))
                    /\ seen' = IF nested THEN seen ELSE r.seen
                    /\ drainSeen' = IF nested THEN r.seen ELSE drainSeen
                    /\ calls' = IF r.skip \/ nested THEN calls
                                ELSE [calls EXCEPT ![cb] = @ + 1]
                    /\ drainCalls' = IF r.skip \/ ~nested THEN drainCalls
                                     ELSE [drainCalls EXCEPT ![cb] = @ + 1]
                    /\ UNCHANGED flushPc
           ELSE /\ UNCHANGED <<seen, calls>>
                /\ IF b.begun
                   THEN /\ CommitSched(b.S)
                        /\ UNCHANGED <<callStack, flushPc, drainSeen, drainCalls>>
                   ELSE IF ~nested
                   THEN /\ CommitSched([b.S EXCEPT !.queue = sortById(@),
                                                   !.flushIndex = 0])
                        /\ flushPc' = "main"
                        /\ UNCHANGED <<callStack, drainSeen, drainCalls>>
                   ELSE /\ CommitSched(b.S)
                        /\ callStack' = SPop
                        /\ drainSeen' = NewCountMap
                        /\ drainCalls' = NewCountMap
                        /\ UNCHANGED flushPc
    /\ UNCHANGED <<schedFuel, ran, unmountedNow>>
    /\ UNCHANGED notSched

\* one turn of the loop over the queue: the job at flushIndex is called if
\* it is active and under the recursion limit
RunJob ==
    /\ flushPc = "main" /\ callStack = <<>>
    /\ flushIndex < Len(queue)
    /\ LET job == queue[flushIndex + 1]
           r == checkRecursiveUpdates(seen, job)
           called == jobActive[job] /\ ~r.skip
       IN  /\ CommitSched([Sched EXCEPT
                  !.flushIndex = IF called THEN @ ELSE @ + 1,
                  !.owed = @ \ {job}])
           /\ callStack' = IF called THEN <<SFrame("job", job, "queue")>>
                           ELSE callStack
           /\ ran' = IF called THEN Append(ran, job) ELSE ran
           /\ seen' = IF jobActive[job] THEN r.seen ELSE seen
           /\ calls' = IF called THEN [calls EXCEPT ![job] = @ + 1] ELSE calls
    /\ UNCHANGED <<flushPc, schedFuel, unmountedNow, drainSeen, drainCalls>>
    /\ UNCHANGED notSched

\* the finally block of flushJobs up to the first post-flush callback
EndOfQueue ==
    /\ flushPc = "main" /\ callStack = <<>>
    /\ flushIndex >= Len(queue)
    /\ LET r == finallyOfFlushJobs(Sched)
       IN  /\ CommitSched(r.S)
           /\ FlushGoesOn(r)
    /\ UNCHANGED callStack
    /\ UNCHANGED notSched

\* one turn of the loop of flushPostFlushCbs, or its end and the rest of
\* flushJobs
PostFlushStep ==
    /\ flushPc = "post" /\ callStack = <<>>
    /\ IF postFlushIndex < Len(activePostFlushCbs)
       THEN LET cb == activePostFlushCbs[postFlushIndex + 1]
                r == checkRecursiveUpdates(seen, cb)
            IN  /\ CommitSched([Sched EXCEPT
                       !.postFlushIndex = IF r.skip THEN @ + 1 ELSE @,
                       !.owed = @ \ {cb}])
                /\ callStack' = IF r.skip THEN callStack
                                ELSE <<SFrame("cb", cb, "post")>>
                /\ seen' = r.seen
                /\ calls' = IF r.skip THEN calls
                            ELSE [calls EXCEPT ![cb] = @ + 1]
                /\ UNCHANGED <<flushPc, schedFuel, ran, unmountedNow, drainSeen,
                               drainCalls>>
       ELSE LET r == finishFlush([Sched EXCEPT !.activePostFlushCbs = NullCbs,
                                               !.postFlushIndex = 0])
            IN  /\ CommitSched(r.S)
                /\ FlushGoesOn(r)
                /\ UNCHANGED callStack
    /\ UNCHANGED notSched

\* a job or a callback returns to the loop or to the update that called it
SchedReturn ==
    /\ callStack # <<>> /\ STop.kind \in {"job", "cb"}
    /\ callStack' = SPop
    /\ flushIndex' = IF STop.from = "queue" THEN flushIndex + 1 ELSE flushIndex
    /\ preFlushIndex' =
           IF STop.from = "pre" THEN preFlushIndex + 1 ELSE preFlushIndex
    /\ postFlushIndex' =
           IF STop.from = "post" THEN postFlushIndex + 1 ELSE postFlushIndex
    /\ UNCHANGED <<queue, isFlushing, isFlushPending, pendingPreFlushCbs,
                   activePreFlushCbs, pendingPostFlushCbs, activePostFlushCbs,
                   currentPreFlushParentJob, jobActive, flushPc, schedFuel,
                   ran, unmountedNow, scheduledFlushes, owed, seen, drainSeen,
                   calls, drainCalls>>
    /\ UNCHANGED notSched

\* a job or a callback called by one of the three loops throws.  The loops
\* of flushPreFlushCbs and flushPostFlushCbs call the callbacks directly and
\* have no try block: the error leaves flushJobs at once, from before its
\* try block or from inside its finally block.  A job of the queue is
\* called by callWithErrorHandling, which rethrows when no handler is
\* configured: the finally block of flushJobs runs, and the error goes on
\* when the block is done.
SchedThrow ==
    /\ Len(callStack) = 1 /\ STop.kind \in {"job", "cb"}
    /\ STop.from \in {"queue", "pre", "post"}
    /\ IF STop.from = "queue"
       THEN LET r == finallyOfFlushJobs(Sched)
            IN  /\ CommitSched(r.S)
                /\ FlushGoesOn(r)
       ELSE /\ CommitSched(Sched)
            /\ FlushGoesOn([pc |-> "idle"])
    /\ callStack' = <<>>
    /\ UNCHANGED notSched

\* the return of a job or callback that enqueues itself every time it runs
ReturnOfLooper == callStack # <<>> /\ Requeued /\ SchedReturn

\* the steps flushJobs and the functions it calls make by themselves
FlushProgress ==
    \/ FlushJobs
    \/ PreFlushStep
    \/ RunJob
    \/ EndOfQueue
    \/ PostFlushStep
    \/ RequeueSelf
    \/ ReturnOfLooper

\* the script is running, or the function on top of the stack is in its
\* first run of this flush (of this drain, for a nested pre-flush drain)
FirstRun ==
    \/ flushPc = "idle"
    \/ /\ callStack # <<>>
       /\ IF Len(callStack) > 1 /\ STop.from = "pre"
          THEN drainCalls[STop.job] <= 1
          ELSE calls[STop.job] <= 1

(***************************************************************************)
(* render(vnode, container) on the container a root component is mounted   *)
(* in, called by the script or by a callback: the patch updates the root   *)
(* at once (updateComponent), then render calls flushPostFlushCbs itself.  *)
(* The call is a frame below the update it makes.  While the update of the *)
(* root is running, its render effect is on the effect stack and run()     *)
(* does not enter it again, so the call is left out then.                  *)
(***************************************************************************)
\* render up to the first statement of the update of the root r
RenderRoot(r) ==
    /\ SchedCanCall
    /\ IF callStack = <<>> THEN TRUE ELSE STop.kind = "cb"
    /\ \A i \in 1..Len(callStack) : callStack[i].job # r
    /\ jobActive[r]
    /\ LET b == beginPreFlush(invalidateJob(Sched, r), r)
           called == callStack \o <<SFrame("render", NoJob, "sync"),
                                    SFrame("job", r, "sync")>>
       IN  /\ CommitSched(b.S)
           /\ callStack' = IF b.begun
                           THEN Append(called, SFrame("preflush", r, "sync"))
                           ELSE called
           /\ drainSeen' = IF b.begun THEN NewCountMap ELSE drainSeen
           /\ drainCalls' = IF b.begun THEN NewCountMap ELSE drainCalls
    /\ schedFuel' = schedFuel - 1
    /\ UNCHANGED <<flushPc, ran, unmountedNow, seen, calls>>
    /\ UNCHANGED notSched

\* render on the container of the root component 1
Render == RenderRoot(1)

\* the patch of render is over: flushPostFlushCbs() up to its loop; a call
\* nested in a batch in progress appends to that batch and returns
RenderFlushPost ==
    /\ callStack # <<>> /\ STop.kind = "render"
    /\ LET deduped == dedupe(pendingPostFlushCbs)
       IN  IF Len(pendingPostFlushCbs) = 0
           THEN /\ callStack' = SPop
                /\ CommitSched(Sched)
           ELSE IF activePostFlushCbs # NullCbs
           THEN /\ callStack' = SPop
                /\ CommitSched([Sched EXCEPT
                       !.pendingPostFlushCbs = <<>>,
                       !.activePostFlushCbs = @ \o deduped])
           ELSE /\ callStack' = Append(SPop, SFrame("postflush", NoJob, "sync"))
                /\ CommitSched([Sched EXCEPT
                       !.pendingPostFlushCbs = <<>>,
                       !.activePostFlushCbs = sortById(deduped),
                       !.postFlushIndex = 0])
    /\ UNCHANGED <<flushPc, schedFuel, ran, unmountedNow, seen, drainSeen,
                   calls, drainCalls>>
    /\ UNCHANGED notSched

\* one turn of the loop of the flushPostFlushCbs call render made, or its
\* end and the return of render.  The count map of this call is new and no
\* callback reaches RECURSION_LIMIT in one such call.
RenderPostStep ==
    /\ callStack # <<>> /\ STop.kind = "postflush"
    /\ IF postFlushIndex < Len(activePostFlushCbs)
       THEN LET cb == activePostFlushCbs[postFlushIndex + 1]
            IN  /\ CommitSched([Sched EXCEPT !.owed = @ \ {cb}])
                /\ callStack' = Append(callStack, SFrame("cb", cb, "post"))
       ELSE /\ CommitSched([Sched EXCEPT !.activePostFlushCbs = NullCbs,
                                         !.postFlushIndex = 0])
            /\ callStack' = SPop
    /\ UNCHANGED <<flushPc, schedFuel, ran, unmountedNow, seen, drainSeen,
                   calls, drainCalls>>
    /\ UNCHANGED notSched

(***************************************************************************)
(* Part 4, the keyed child diff: patchKeyedChildren, getSequence and the   *)
(* host operations it makes.  A vnode is its key, its type and its el.  A  *)
(* host node is named after the key of the vnode it was created for, and   *)
(* fresh tells a node created by the latest patch from one that was there  *)
(* before it.  Every child of the scenario carries a key.                  *)
(***************************************************************************)
\* the keys children may carry are 1..MaxKey
MaxKey == 3

ChildKeys == 1..MaxKey
\* the child with key 1 is a div or a span, the others are divs
TypesOf(k) == IF k = 1 THEN {"div", "span"} ELSE {"div"}
NoEl == [key |-> 0, fresh |-> FALSE]
NoVNode == [key |-> 0, type |-> "none", el |-> NoEl]

\* the lists of children a render function may return: unique keys
ChildLists ==
    {l \in UNION {[1..n -> [key : ChildKeys, type : {"div", "span"}]] :
                      n \in 0..MaxKey} :
        /\ \A i \in 1..Len(l) : l[i].type \in TypesOf(l[i].key)
        /\ \A i, j \in 1..Len(l) : l[i].key = l[j].key => i = j}

isSameVNodeType(n1, n2) == n1.type = n2.type /\ n1.key = n2.key

\* hostInsert(el, container, anchor): insertBefore, which takes the node out
\* of its old place first; a null anchor appends
hostInsert(h, el, anchor) ==
    LET rest == SelectSeq(h, LAMBDA x : x # el)
        at == IF \E i \in 1..Len(rest) : rest[i] = anchor
              THEN CHOOSE i \in 1..Len(rest) : rest[i] = anchor
              ELSE Len(rest) + 1
    IN  SubSeq(rest, 1, at - 1) \o <<el>> \o SubSeq(rest, at, Len(rest))

hostRemove(h, el) == SelectSeq(h, LAMBDA x : x # el)

hostNextSibling(h, el) ==
    IF \E i \in 1..(Len(h) - 1) : h[i] = el
    THEN h[(CHOOSE i \in 1..(Len(h) - 1) : h[i] = el) + 1]
    ELSE NoEl

\* the state a patch works on: the host children, the el of each new vnode
\* (c2[i].el) and how often each key was mounted, unmounted and moved
DiffStart(h, c2) ==
    [host |-> h, el2 |-> [i \in 1..Len(c2) |-> NoEl],
     mountCount |-> [k \in ChildKeys |-> 0],
     unmountCount |-> [k \in ChildKeys |-> 0],
     moveCount |-> [k \in ChildKeys |-> 0]]

\* unmount(vnode, parentComponent, parentSuspense, true)
unmount(D, n1) ==
    [D EXCEPT !.host = hostRemove(@, n1.el),
              !.unmountCount[n1.key] = @ + 1]

\* patch(n1, n2, container, anchor) for the new vnode at index i2 of c2
patch(D, n1, n2, i2, anchor) ==
    LET replaced == n1 # NoVNode /\ ~isSameVNodeType(n1, n2)
        anchor1 == IF replaced THEN hostNextSibling(D.host, n1.el) ELSE anchor
        D1 == IF replaced THEN unmount(D, n1) ELSE D
        el == [key |-> n2.key, fresh |-> TRUE]
    IN  IF n1 = NoVNode \/ replaced
        THEN [D1 EXCEPT !.host = hostInsert(@, el, anchor1),
                        !.el2[i2 + 1] = el,
                        !.mountCount[n2.key] = @ + 1]
        ELSE [D1 EXCEPT !.el2[i2 + 1] = n1.el]

\* the vnode is left where it is
moveNothing(D, c2, i2, anchor) == D

\* move(vnode, container, anchor, MoveType.REORDER) of the new vnode at
\* index i2
move(D, c2, i2, anchor) ==
    [D EXCEPT !.host = hostInsert(@, D.el2[i2 + 1], anchor),
              !.moveCount[c2[i2 + 1].key] = @ + 1]

(***************************************************************************)
(* getSequence(arr), with the arrays of the code as sequences; the indexes *)
(* in p and result are the 0-based indexes of the code.                    *)
(***************************************************************************)
RECURSIVE seqSearch(_, _, _, _, _)
seqSearch(arr, result, arrI, u, v) ==
    IF u < v
    THEN LET c == (u + v) \div 2
         IN  IF arr[result[c + 1] + 1] < arrI
             THEN seqSearch(arr, result, arrI, c + 1, v)
             ELSE seqSearch(arr, result, arrI, u, c)
    ELSE u

RECURSIVE seqLoop(_, _, _, _)
seqLoop(arr, p, result, i) ==
    IF i >= Len(arr) THEN [p |-> p, result |-> result]
    ELSE LET arrI == arr[i + 1]
             j == result[Len(result)]
             u == seqSearch(arr, result, arrI, 0, Len(result) - 1)
         IN  IF arrI = 0 THEN seqLoop(arr, p, result, i + 1)
             ELSE IF arr[j + 1] < arrI
             THEN seqLoop(arr, [p EXCEPT ![i + 1] = j], Append(result, i), i + 1)
             ELSE IF arrI < arr[result[u + 1] + 1]
             THEN seqLoop(arr,
                          IF u > 0 THEN [p EXCEPT ![i + 1] = result[u]] ELSE p,
                          [result EXCEPT ![u + 1] = i], i + 1)
             ELSE seqLoop(arr, p, result, i + 1)

\* the result of the loop, not traced back through p
withoutBacktrack(p, result, u, v) == result

RECURSIVE seqBacktrack(_, _, _, _)
seqBacktrack(p, result, u, v) ==
    IF u > 0
    THEN seqBacktrack(p, [result EXCEPT ![u] = v], u - 1, p[v + 1])
    ELSE result

\* no index is taken for stable
emptySequence(arr) == <<>>

\* the code reads arr[0] of an empty array as undefined; it is only called
\* with the map of a middle part, which is never empty
getSequence(arr) ==
    LET r == seqLoop(arr, arr, <<0>>, 0)
    IN  seqBacktrack(r.p, r.result, Len(r.result), r.result[Len(r.result)])

(***************************************************************************)
(* patchKeyedChildren(c1, c2, container, parentAnchor = null)              *)
(***************************************************************************)
\* 1. sync from start
RECURSIVE syncFromStart(_, _, _, _)
syncFromStart(D, c1, c2, i) ==
    IF /\ i <= Len(c1) - 1 /\ i <= Len(c2) - 1
       /\ isSameVNodeType(c1[i + 1], c2[i + 1])
    THEN syncFromStart(patch(D, c1[i + 1], c2[i + 1], i, NoEl), c1, c2, i + 1)
    ELSE [D |-> D, i |-> i]

\* 2. sync from end
RECURSIVE syncFromEnd(_, _, _, _, _, _)
syncFromEnd(D, c1, c2, i, e1, e2) ==
    IF i <= e1 /\ i <= e2 /\ isSameVNodeType(c1[e1 + 1], c2[e2 + 1])
    THEN syncFromEnd(patch(D, c1[e1 + 1], c2[e2 + 1], e2, NoEl),
                     c1, c2, i, e1 - 1, e2 - 1)
    ELSE [D |-> D, e1 |-> e1, e2 |-> e2]

\* 3. common sequence + mount
RECURSIVE mountRest(_, _, _, _, _)
mountRest(D, c2, i, e2, anchor) ==
    IF i <= e2
    THEN mountRest(patch(D, NoVNode, c2[i + 1], i, anchor), c2, i + 1, e2, anchor)
    ELSE D

\* 4. common sequence + unmount
RECURSIVE unmountRest(_, _, _, _)
unmountRest(D, c1, i, e1) ==
    IF i <= e1 THEN unmountRest(unmount(D, c1[i + 1]), c1, i + 1, e1) ELSE D

\* 5.1 keyToNewIndexMap.get(key): a later set of the same key wins; -1
\* stands for undefined
keyToNewIndex(c2, s2, e2, key) ==
    LET at == {j \in s2..e2 : c2[j + 1].key = key}
    IN  IF at = {} THEN -1 ELSE CHOOSE j \in at : \A k \in at : k <= j

\* 5.2 loop through the old children left to be patched
RECURSIVE patchOld(_, _, _, _, _, _, _)
patchOld(M, c1, c2, i, e1, s2, e2) ==
    IF i > e1 THEN M
    ELSE LET prevChild == c1[i + 1]
             toBePatched == e2 - s2 + 1
             newIndex == keyToNewIndex(c2, s2, e2, prevChild.key)
         IN  IF M.patched >= toBePatched \/ newIndex = -1
             THEN patchOld([M EXCEPT !.D = unmount(@, prevChild)],
                           c1, c2, i + 1, e1, s2, e2)
             ELSE patchOld(
                      [D |-> patch(M.D, prevChild, c2[newIndex + 1], newIndex, NoEl),
                       patched |-> M.patched + 1,
                       moved |-> M.moved \/ newIndex < M.maxNewIndexSoFar,
                       maxNewIndexSoFar |->
                           IF newIndex >= M.maxNewIndexSoFar
                           THEN newIndex ELSE M.maxNewIndexSoFar,
                       newIndexToOldIndexMap |->
                           [M.newIndexToOldIndexMap EXCEPT ![newIndex - s2 + 1] = i + 1]],
                      c1, c2, i + 1, e1, s2, e2)

\* 5.3 loop backwards through the new children: mount and move
RECURSIVE mountAndMove(_, _, _, _, _, _, _, _)
mountAndMove(D, c2, map, moved, seq, s2, i, j) ==
    IF i < 0 THEN D
    ELSE LET nextIndex == s2 + i
             anchor == IF nextIndex + 1 < Len(c2)
                       THEN D.el2[nextIndex + 2] ELSE NoEl
         IN  IF map[i + 1] = 0
             THEN mountAndMove(patch(D, NoVNode, c2[nextIndex + 1], nextIndex, anchor),
                               c2, map, moved, seq, s2, i - 1, j)
             ELSE IF moved
             THEN (IF j < 0 \/ i # seq[j + 1]
                   THEN mountAndMove(move(D, c2, nextIndex, anchor),
                                     c2, map, moved, seq, s2, i - 1, j)
                   ELSE mountAndMove(D, c2, map, moved, seq, s2, i - 1, j - 1))
             ELSE mountAndMove(D, c2, map, moved, seq, s2, i - 1, j)

\* the result: the patch state, and the map and the sequence of the middle
\* part (empty when there was none)
patchKeyedChildren(h, c1, c2) ==
    LET l2 == Len(c2)
        a == syncFromStart(DiffStart(h, c2), c1, c2, 0)
        b == syncFromEnd(a.D, c1, c2, a.i, Len(c1) - 1, l2 - 1)
        i == a.i
        e1 == b.e1
        e2 == b.e2
        noMiddle(D) == [D |-> D, map |-> <<>>, seq |-> <<>>, s2 |-> i]
    IN  IF i > e1
        THEN IF i <= e2
             THEN noMiddle(mountRest(b.D, c2, i, e2,
                      IF e2 + 1 < l2 THEN b.D.el2[e2 + 2] ELSE NoEl))
             ELSE noMiddle(b.D)
        ELSE IF i > e2
        THEN noMiddle(unmountRest(b.D, c1, i, e1))
        ELSE LET toBePatched == e2 - i + 1
                 m == patchOld(
                          [D |-> b.D, patched |-> 0, moved |-> FALSE,
                           maxNewIndexSoFar |-> 0,
                           newIndexToOldIndexMap |-> [k \in 1..toBePatched |-> 0]],
                          c1, c2, i, e1, i, e2)
                 increasingNewIndexSequence ==
                     IF m.moved THEN getSequence(m.newIndexToOldIndexMap) ELSE <<>>
             IN  [D |-> mountAndMove(m.D, c2, m.newIndexToOldIndexMap, m.moved,
                                     increasingNewIndexSequence, i,
                                     toBePatched - 1,
                                     Len(increasingNewIndexSequence) - 1),
                  map |-> m.newIndexToOldIndexMap,
                  seq |-> increasingNewIndexSequence,
                  s2 |-> i]

\* the el names after a patch become the names before the next one
settled(el) == [el EXCEPT !.fresh = FALSE]

InitDiff ==
    /\ children = <<>>
    /\ prevChildren = <<>>
    /\ host = <<>>
    /\ mountCount = [k \in ChildKeys |-> 0]
    /\ unmountCount = [k \in ChildKeys |-> 0]
    /\ moveCount = [k \in ChildKeys |-> 0]
    /\ lastMap = <<>>
    /\ lastSeq = <<>>
    /\ lastS2 = 0

\* the parent renders the list c2 over its current children
PatchChildren(c2) ==
    /\ LET c1 == [i \in 1..Len(children) |->
                     [children[i] EXCEPT !.el = settled(@)]]
           h == [i \in 1..Len(host) |-> settled(host[i])]
       IN  \E r \in {patchKeyedChildren(h, c1, c2)} :
               /\ prevChildren' = c1
               /\ children' = [i \in 1..Len(c2) |->
                      [key |-> c2[i].key, type |-> c2[i].type,
                       el |-> r.D.el2[i]]]
               /\ host' = r.D.host
               /\ mountCount' = r.D.mountCount
               /\ unmountCount' = r.D.unmountCount
               /\ moveCount' = r.D.moveCount
               /\ lastMap' = r.map
               /\ lastSeq' = r.seq
               /\ lastS2' = r.s2
    /\ UNCHANGED notDiff

(***************************************************************************)
(* Part 5, Suspense: one boundary without a parent boundary, in a          *)
(* development build, without hydration and without transitions.  The      *)
(* default slot renders a root of type "p" or "q" with async components    *)
(* below it; the fallback slot renders no component.  A component is an    *)
(* instance 1..MaxInstances whose setup() returned a promise.  A vnode     *)
(* tree is named by the place it has: "pending" is the tree of             *)
(* suspense.pendingBranch in the hidden container, "active" the tree of    *)
(* suspense.activeBranch in the real container.                            *)
(***************************************************************************)
\* async components created in one scenario
MaxInstances == 3
\* the largest suspense.pendingId a scenario reaches
MaxPendingId == 2

Instances == 1..MaxInstances
BranchTypes == {"p", "q"}
NoBranch == "null"
Fallback == "fallback"
\* props.timeout: absent (-1) or 0
Timeouts == {-1, 0}

\* createSuspenseBoundary: the fields of the new boundary
createSuspenseBoundary(timeout) ==
    [deps |-> 0, pendingId |-> 0, timeout |-> timeout,
     activeBranch |-> NoBranch, pendingBranch |-> NoBranch,
     isInFallback |-> TRUE, isUnmounted |-> FALSE, effects |-> <<>>]

\* a component that was not created yet
NoInstance ==
    [tree |-> "none", asyncResolved |-> FALSE, isUnmounted |-> FALSE,
     suspenseId |-> 0, isInPendingSuspense |-> FALSE, settled |-> FALSE,
     removed |-> FALSE, mounted |-> FALSE]

\* The state of this part as one record, so that the code's functions
\* compose.
Boundary ==
    [s |-> suspense, inst |-> instance, shown |-> container,
     post |-> susPostCbs, resolveCount |-> resolveCount,
     leftBehind |-> leftBehind, err |-> thrown, parents |-> susParents,
     reported |-> susReported]

CommitBoundary(Z) ==
    /\ suspense' = Z.s
    /\ instance' = Z.inst
    /\ container' = Z.shown
    /\ susPostCbs' = Z.post
    /\ resolveCount' = Z.resolveCount
    /\ leftBehind' = Z.leftBehind
    /\ thrown' = Z.err
    /\ susParents' = Z.parents
    /\ susReported' = Z.reported

\* the dependencies registered under the pending branch of now that have
\* neither settled nor been unmounted
Awaited(Z) ==
    {i \in Instances :
        /\ Z.inst[i].isInPendingSuspense
        /\ Z.inst[i].suspenseId = Z.s.pendingId
        /\ ~Z.inst[i].settled
        /\ ~Z.inst[i].removed}

setActiveBranch(Z, branch) == [Z EXCEPT !.s.activeBranch = branch]

\* queuePostRenderEffect: buffered by a pending boundary, else handed to
\* queuePostFlushCb
queueEffectWithSuspense(Z, fns, withSuspense) ==
    IF withSuspense /\ Z.s.pendingBranch # NoBranch
    THEN [Z EXCEPT !.s.effects = @ \o fns]
    ELSE [Z EXCEPT !.post = @ \o fns]

\* the positions, in a chain of boundaries, of those with a pending branch
PendingIn(parents) == {k \in 1..Len(parents) : parents[k].pendingBranch}

\* the end of resolve without the search for a pending parent
flushToQueue(Z) == [Z EXCEPT !.post = @ \o Z.s.effects, !.s.effects = <<>>]

\* the end of resolve: the buffered effects go to the nearest parent that
\* has a pending branch, or to queuePostFlushCb when there is none
flushBuffered(Z) ==
    LET pending == PendingIn(Z.parents)
    IN  IF pending # {}
        THEN LET k == CHOOSE x \in pending : \A y \in pending : x <= y
             IN  [Z EXCEPT !.parents[k].effects = @ \o Z.s.effects,
                           !.s.effects = <<>>]
        ELSE [Z EXCEPT !.post = @ \o Z.s.effects, !.s.effects = <<>>]

RECURSIVE resolve(_, _)
RECURSIVE unmountComponentIn(_, _, _)
RECURSIVE unmountInstances(_, _, _)

\* unmountComponent(instance, parentSuspense): the instance leaves its tree,
\* the callback that sets isUnmounted is queued as a post-render effect, and
\* a dependency of the pending branch is taken off the boundary
unmountComponentIn(Z, i, withSuspense) ==
    LET was == Z.inst[i]
        Z1 == [Z EXCEPT !.inst[i].removed = TRUE, !.inst[i].tree = "gone"]
        Z2 == queueEffectWithSuspense(Z1, <<<<"unmounted", i>>>>, withSuspense)
    IN  IF /\ withSuspense
           /\ Z2.s.pendingBranch # NoBranch
           /\ ~Z2.s.isUnmounted
           /\ ~was.asyncResolved
           /\ was.suspenseId = Z2.s.pendingId
        THEN LET Z3 == [Z2 EXCEPT !.s.deps = @ - 1]
             IN  IF Z3.s.deps = 0 THEN resolve(Z3, FALSE) ELSE Z3
        ELSE Z2

\* unmount of the components in is, in the order of their creation
unmountInstances(Z, is, withSuspense) ==
    IF is = {} THEN Z
    ELSE LET i == CHOOSE x \in is : \A y \in is : x <= y
         IN  unmountInstances(unmountComponentIn(Z, i, withSuspense),
                              is \ {i}, withSuspense)

InTree(Z, tree) == {i \in Instances : Z.inst[i].tree = tree}

\* suspense.resolve(resume)
resolve(Z, resume) ==
    LET Z0 == [Z EXCEPT !.resolveCount[Z.s.pendingId] = @ + 1,
                        !.leftBehind = @ \cup Awaited(Z)]
        pendingBranch == Z.s.pendingBranch
        activeBranch == Z.s.activeBranch
    IN  IF ~resume /\ pendingBranch = NoBranch
        THEN [Z0 EXCEPT !.err = "resolve() is called without a pending branch"]
        ELSE IF Z.s.isUnmounted
        THEN [Z0 EXCEPT !.err = "resolve() is called on an unmounted boundary"]
        ELSE
        LET \* unmount current active tree, move the content into the container
            Za == IF resume THEN Z0
                  ELSE LET U == IF activeBranch # NoBranch
                                THEN LET V == unmountInstances(
                                                 Z0, InTree(Z0, "active"), TRUE)
                                     IN  [V EXCEPT !.shown = @ \ {activeBranch}]
                                ELSE Z0
                       IN  [U EXCEPT !.shown = @ \cup {pendingBranch}]
            Zb == [setActiveBranch(Za, pendingBranch) EXCEPT
                     !.s.pendingBranch = NoBranch,
                     !.s.isInFallback = FALSE,
                     !.inst = [i \in Instances |->
                                 IF Za.inst[i].tree = "pending"
                                 THEN [Za.inst[i] EXCEPT !.tree = "active"]
                                 ELSE Za.inst[i]]]
        IN  \* flush buffered effects
            flushBuffered(Zb)

\* suspense.fallback(fallbackVNode)
fallback(Z) ==
    IF Z.s.pendingBranch = NoBranch THEN Z
    ELSE LET Z1 == [Z EXCEPT !.s.isInFallback = TRUE]
             \* unmount(activeBranch, parentComponent, null, true)
             Z2 == unmountInstances(Z1, InTree(Z1, "active"), FALSE)
             Z3 == [Z2 EXCEPT !.shown = (@ \ {Z.s.activeBranch}) \cup {Fallback}]
         IN  setActiveBranch(Z3, Fallback)

\* the ids of the next n components to create
Fresh(Z, n) ==
    LET used == {i \in Instances : Z.inst[i].tree # "none"}
        first == IF used = {} THEN 1
                 ELSE 1 + CHOOSE x \in used : \A y \in used : y <= x
    IN  first..(first + n - 1)

\* suspense.registerDep(instance, setupRenderEffect), up to the promise
registerDep(Z, i) ==
    LET isInPendingSuspense == Z.s.pendingBranch # NoBranch
        Z1 == [Z EXCEPT !.inst[i].isInPendingSuspense = isInPendingSuspense]
    IN  IF isInPendingSuspense THEN [Z1 EXCEPT !.s.deps = @ + 1] ELSE Z1

\* mountComponent of a component whose setup() returned a promise;
\* createComponentInstance takes suspenseId from the boundary's pendingId
mountComponent(Z, i, tree) ==
    registerDep([Z EXCEPT !.inst[i] =
                    [NoInstance EXCEPT !.tree = tree,
                                       !.suspenseId = Z.s.pendingId]], i)

RECURSIVE mountInstances(_, _, _)
mountInstances(Z, is, tree) ==
    IF is = {} THEN Z
    ELSE LET i == CHOOSE x \in is : \A y \in is : x <= y
         IN  mountInstances(mountComponent(Z, i, tree), is \ {i}, tree)

\* the callback registerDep gives to instance.asyncDep.catch(...).then
registerDepThen(Z, i) ==
    LET me == Z.inst[i]
        Z0 == [Z EXCEPT !.inst[i].settled = TRUE]
    IN  IF me.isUnmounted \/ Z.s.isUnmounted \/ Z.s.pendingId # me.suspenseId
        THEN Z0
        ELSE LET Z1 == [Z0 EXCEPT !.inst[i].asyncResolved = TRUE]
                 \* setupRenderEffect queues the mounted hook
                 Z2 == queueEffectWithSuspense(Z1, <<<<"mounted", i>>>>, TRUE)
             IN  IF me.isInPendingSuspense
                 THEN LET Z3 == [Z2 EXCEPT !.s.deps = @ - 1]
                      IN  IF Z3.s.deps = 0 THEN resolve(Z3, FALSE) ELSE Z3
                 ELSE Z2

\* The error is rethrown instead of reported.
rethrowError(Z, i) == [threw |-> TRUE, Z |-> Z]

\* handleError(err, instance, ErrorCodes.SETUP_FUNCTION), in the handler of
\* a rejected promise: the error is reported to the configured handler or
\* logged, and the call returns.
handleError(Z, i) ==
    [threw |-> FALSE, Z |-> [Z EXCEPT !.reported = @ \cup {i}]]

\* instance.asyncDep.catch(...).then(...) for a promise that rejects: the
\* callback of then runs, with an undefined result, when the handler of
\* catch returns
registerDepCatch(Z, i) ==
    LET h == handleError(Z, i)
    IN  IF h.threw THEN [h.Z EXCEPT !.inst[i].settled = TRUE]
        ELSE registerDepThen(h.Z, i)

\* patch(n1, n2, ..., suspense) of a content tree whose root type is kept:
\* the children in remove are unmounted, n new ones are mounted
patchTree(Z, tree, remove, n, mountFirst) ==
    IF mountFirst
    THEN unmountInstances(mountInstances(Z, Fresh(Z, n), tree), remove, TRUE)
    ELSE LET U == unmountInstances(Z, remove, TRUE)
         IN  mountInstances(U, Fresh(U, n), tree)

\* mountSuspense
mountSuspense(Z, t, n, timeout) ==
    LET Z1 == [Z EXCEPT !.s = [createSuspenseBoundary(timeout)
                                 EXCEPT !.pendingBranch = t]]
        Z2 == mountInstances(Z1, Fresh(Z1, n), "pending")
    IN  IF Z2.s.deps > 0
        THEN setActiveBranch([Z2 EXCEPT !.shown = @ \cup {Fallback}], Fallback)
        ELSE resolve(Z2, FALSE)

\* patchSuspense; t is the root type of the new default slot content
patchSuspense(Z, t, remove, n, mountFirst) ==
    LET activeBranch == Z.s.activeBranch
        pendingBranch == Z.s.pendingBranch
        isInFallback == Z.s.isInFallback
    IN
    IF pendingBranch # NoBranch
    THEN LET Z1 == [Z EXCEPT !.s.pendingBranch = t] IN
         IF t = pendingBranch
         THEN \* same root type but content may have changed
              LET Z2 == patchTree(Z1, "pending", remove, n, mountFirst)
              IN  IF Z2.s.deps <= 0 THEN resolve(Z2, FALSE)
                  ELSE IF isInFallback THEN setActiveBranch(Z2, Fallback)
                  ELSE Z2
         ELSE \* toggled before pending tree is resolved
              LET Z2 == [Z1 EXCEPT !.s.pendingId = @ + 1]
                  Z3 == unmountInstances(Z2, InTree(Z2, "pending"), TRUE)
                  Z4 == [Z3 EXCEPT !.s.deps = 0, !.s.effects = <<>>]
              IN  IF isInFallback
                  THEN LET Z5 == mountInstances(Z4, Fresh(Z4, n), "pending")
                       IN  IF Z5.s.deps <= 0 THEN resolve(Z5, FALSE)
                           ELSE setActiveBranch(Z5, Fallback)
                  ELSE IF activeBranch # NoBranch /\ t = activeBranch
                  THEN \* toggled "back" to current active branch
                       resolve(patchTree(Z4, "active", remove, n, mountFirst),
                               TRUE)
                  ELSE \* switched to a 3rd branch
                       LET Z5 == mountInstances(Z4, Fresh(Z4, n), "pending")
                       IN  IF Z5.s.deps <= 0 THEN resolve(Z5, FALSE) ELSE Z5
    ELSE IF activeBranch # NoBranch /\ t = activeBranch
         THEN \* root did not change, just normal patch
              setActiveBranch(patchTree(Z, "active", remove, n, mountFirst), t)
         ELSE \* root node toggled
              LET Z1 == [Z EXCEPT !.s.pendingBranch = t, !.s.pendingId = @ + 1]
                  Z2 == mountInstances(Z1, Fresh(Z1, n), "pending")
              IN  IF Z2.s.deps <= 0 THEN resolve(Z2, FALSE)
                  ELSE IF Z2.s.timeout = 0 THEN fallback(Z2)
                  ELSE Z2

\* suspense.unmount(parentSuspense, doRemove) without a parent boundary
unmountBoundary(Z) ==
    LET Z1 == [Z EXCEPT !.s.isUnmounted = TRUE]
        Z2 == unmountInstances(Z1, InTree(Z1, "active"), FALSE)
        Z3 == unmountInstances(Z2, InTree(Z2, "pending"), FALSE)
    IN  [Z3 EXCEPT !.shown = {}]

\* flushPostFlushCbs: the callbacks handed to queuePostFlushCb run in order
RECURSIVE runPostCbs(_, _)
runPostCbs(inst, cbs) ==
    IF cbs = <<>> THEN inst
    ELSE LET cb == Head(cbs)
             i == cb[2]
         IN  runPostCbs(
                IF cb[1] = "unmounted"
                THEN [inst EXCEPT ![i].isUnmounted = TRUE]
                ELSE [inst EXCEPT ![i].mounted = TRUE],
                Tail(cbs))

flushPostCbs(Z) ==
    IF Z.err # "" THEN Z
    ELSE [Z EXCEPT !.inst = runPostCbs(Z.inst, Z.post), !.post = <<>>]

InitSuspenseIn(parents0) ==
    /\ susParents = parents0
    /\ susReported = {}
    /\ suspense = createSuspenseBoundary(-1)
    /\ instance = [i \in Instances |-> NoInstance]
    /\ container = {}
    /\ susPostCbs = <<>>
    /\ resolveCount = [g \in 0..MaxPendingId |-> 0]
    /\ leftBehind = {}
    /\ thrown = ""
    /\ susMounted = FALSE

\* a boundary that is inside no other boundary
InitSuspense == InitSuspenseIn(<<>>)

\* render(h(Suspense, ...)): the boundary is mounted with n async
\* components in its default slot; the render ends with flushPostFlushCbs
MountSuspense(t, n, timeout) ==
    /\ ~susMounted
    /\ susMounted' = TRUE
    /\ \E Z \in {flushPostCbs(mountSuspense(Boundary, t, n, timeout))} :
          CommitBoundary(Z)
    /\ UNCHANGED notSus

Live == susMounted /\ ~suspense.isUnmounted /\ thrown = ""

\* the parent's update job patches the boundary; the flush it runs in ends
\* with flushPostFlushCbs
PatchSuspense(t, remove, n, mountFirst) ==
    /\ Live
    /\ LET tree == IF suspense.pendingBranch # NoBranch
                   THEN (IF t = suspense.pendingBranch THEN "pending"
                         ELSE IF ~suspense.isInFallback
                                 /\ t = suspense.activeBranch
                              THEN "active" ELSE "none")
                   ELSE (IF t = suspense.activeBranch THEN "active"
                         ELSE "none")
       IN  /\ remove \subseteq InTree(Boundary, tree)
           /\ tree = "none" => ~mountFirst
           /\ mountFirst => remove # {} /\ n > 0
           \* a new pending branch takes the next pendingId
           /\ (tree = "none" \/ (suspense.pendingBranch # NoBranch /\ tree = "active"))
                 => suspense.pendingId < MaxPendingId
    /\ Fresh(Boundary, n) \subseteq Instances
    /\ \E Z \in {flushPostCbs(patchSuspense(Boundary, t, remove, n,
                                            mountFirst))} :
          CommitBoundary(Z)
    /\ UNCHANGED susMounted
    /\ UNCHANGED notSus

\* the promise of component i settles: the callback of registerDep runs
Settle(i) ==
    /\ susMounted
    /\ thrown = ""
    /\ instance[i].tree # "none"
    /\ ~instance[i].settled
    /\ CommitBoundary(registerDepThen(Boundary, i))
    /\ UNCHANGED susMounted
    /\ UNCHANGED notSus

\* the promise of component i rejects
Reject(i) ==
    /\ susMounted
    /\ thrown = ""
    /\ instance[i].tree # "none"
    /\ ~instance[i].settled
    /\ CommitBoundary(registerDepCatch(Boundary, i))
    /\ UNCHANGED susMounted
    /\ UNCHANGED notSus

\* the flush that queuePostFlushCb scheduled runs the callbacks
FlushPost ==
    /\ susMounted
    /\ thrown = ""
    /\ susPostCbs # <<>>
    /\ CommitBoundary(flushPostCbs(Boundary))
    /\ UNCHANGED susMounted
    /\ UNCHANGED notSus

\* the parent stops rendering the boundary
UnmountSuspense ==
    /\ Live
    /\ \E Z \in {flushPostCbs(unmountBoundary(Boundary))} : CommitBoundary(Z)
    /\ UNCHANGED susMounted
    /\ UNCHANGED notSus

\* ---- a boundary inside other boundaries ----

\* the deepest chain of parents
MaxParents == 2

\* a parent boundary, as far as resolve looks at it
ParentBoundary(pending) == [pendingBranch |-> pending, effects |-> <<>>]

ParentChains ==
    UNION {[1..n -> {ParentBoundary(b) : b \in BOOLEAN}] : n \in 1..MaxParents}

\* the k-th parent resolves: the end of resolve, for that boundary
ParentResolves(k) ==
    /\ thrown = ""
    /\ k \in PendingIn(susParents)
    /\ LET above == {x \in PendingIn(susParents) : x > k}
           effects == susParents[k].effects
           cleared == [susParents EXCEPT ![k].pendingBranch = FALSE,
                                         ![k].effects = <<>>]
       IN  IF above # {}
           THEN LET a == CHOOSE x \in above : \A y \in above : x <= y
                IN  /\ susParents' = [cleared EXCEPT ![a].effects = @ \o effects]
                    /\ UNCHANGED <<instance, susPostCbs>>
           ELSE /\ susParents' = cleared
                /\ LET Z == flushPostCbs([Boundary EXCEPT !.post = @ \o effects])
                   IN  instance' = Z.inst /\ susPostCbs' = Z.post
    /\ UNCHANGED <<suspense, container, resolveCount, leftBehind, thrown,
                   susMounted, susReported>>
    /\ UNCHANGED notSus
(***************************************************************************)
(* Part 6, KeepAlive: one KeepAlive component with props.max, outside any  *)
(* Suspense boundary, whose default slot renders one stateful component.   *)
(* Every render of the slot makes a new vnode; a vnode is an index into    *)
(* vnodes, a component instance an index into comps, 0 stands for none.    *)
(* One action is one run of KeepAlive's update job (its render function    *)
(* and the patch of its subtree); the mounted / updated hook that caches   *)
(* the subtree and the activated / deactivated callbacks are post-render   *)
(* effects and run when the flush reaches its post-flush callbacks.        *)
(***************************************************************************)
\* renders of the slot in one scenario
MaxRenders == 4

\* what the slot may render: component A, component B, and component A with
\* an explicit key; the cache key is vnode.key == null ? comp : vnode.key
SlotChildren ==
    {[key |-> "A", type |-> "A"], [key |-> "B", type |-> "B"],
     [key |-> "k", type |-> "A"]}
CacheKeys == {c.key : c \in SlotChildren}
NoKey == "null"
\* props.max of the scenario
MaxSizes == {1, 2}

VNodeIds == 1..MaxRenders
NewVNode(child) ==
    [key |-> child.key, type |-> child.type, component |-> 0,
     shouldKeepAlive |-> FALSE, keptAlive |-> FALSE]
UnusedVNode == NewVNode([key |-> NoKey, type |-> "none"])

\* a component instance that was not created
NoComp == [place |-> "none", scopeActive |-> FALSE, isDeactivated |-> FALSE,
           setups |-> 0, unmounts |-> 0]

\* the closure of setup() and the instances, as one record
KeepAlive ==
    [cache |-> cache, keys |-> keys, current |-> current,
     pendingCacheKey |-> pendingCacheKey, subTree |-> subTree,
     vnodes |-> vnodes, comps |-> comps, post |-> kaPostCbs,
     err |-> kaThrown, lastUse |-> lastUse, evicted |-> evicted]

CommitKeepAlive(K) ==
    /\ cache' = K.cache
    /\ keys' = K.keys
    /\ current' = K.current
    /\ pendingCacheKey' = K.pendingCacheKey
    /\ subTree' = K.subTree
    /\ vnodes' = K.vnodes
    /\ comps' = K.comps
    /\ kaPostCbs' = K.post
    /\ kaThrown' = K.err
    /\ lastUse' = K.lastUse
    /\ evicted' = K.evicted

resetShapeFlag(K, v) ==
    [K EXCEPT !.vnodes[v].shouldKeepAlive = FALSE,
              !.vnodes[v].keptAlive = FALSE]

\* renderer.ts unmountComponent: the scope is stopped, the subtree unmounted
unmountKept(K, i) ==
    [K EXCEPT !.comps[i].scopeActive = FALSE,
              !.comps[i].place = "gone",
              !.comps[i].unmounts = @ + 1]

\* sharedContext.deactivate
deactivate(K, v) ==
    LET i == K.vnodes[v].component
    IN  [K EXCEPT !.comps[i].place = "storage",
                  !.post = Append(@, <<"deactivated", i>>)]

\* sharedContext.activate
activate(K, v) ==
    LET i == K.vnodes[v].component
    IN  [K EXCEPT !.comps[i].place = "tree",
                  !.post = Append(@, <<"activated", i>>)]

unmountAlways(K, v) == unmountKept(K, K.vnodes[v].component)

\* renderer.ts unmount of a component vnode
rendererUnmount(K, v) ==
    IF K.vnodes[v].shouldKeepAlive
    THEN deactivate(K, v)
    ELSE unmountKept(K, K.vnodes[v].component)

\* KeepAlive.ts unmount(vnode)
keepAliveUnmount(K, v) == rendererUnmount(resetShapeFlag(K, v), v)

pruneCacheEntry(K, key) ==
    LET cached == K.cache[key]
        E == [K EXCEPT !.evicted =
                [key |-> key,
                 comp |-> IF cached = 0 THEN 0
                          ELSE K.vnodes[cached].component,
                 lru |-> \A k \in Range(K.keys) :
                            K.lastUse[key] <= K.lastUse[k]]]
    IN  IF cached = 0
        THEN [E EXCEPT !.err = "TypeError: cached is undefined"]
        ELSE LET U == IF K.current = 0
                         \/ K.vnodes[cached].type # K.vnodes[K.current].type
                      THEN keepAliveUnmount(E, cached)
                      ELSE resetShapeFlag(E, K.current)
             IN  [U EXCEPT !.cache[key] = 0, !.keys = SetDelete(@, key)]

\* the render function setup() returns; v is the vnode the slot made
keepAliveRender(K, v, max) ==
    LET key == K.vnodes[v].key
        cachedVNode == K.cache[key]
        K1 == [K EXCEPT !.pendingCacheKey = key,
                        !.lastUse[key] = v,
                        !.evicted = [key |-> NoKey, comp |-> 0, lru |-> TRUE]]
        K2 == IF cachedVNode # 0
              THEN [K1 EXCEPT
                      !.vnodes[v].component = K.vnodes[cachedVNode].component,
                      !.vnodes[v].keptAlive = TRUE,
                      !.keys = Append(SetDelete(@, key), key)]
              ELSE LET A == [K1 EXCEPT !.keys = SetAdd(@, key)]
                   IN  IF Len(A.keys) > max
                       THEN pruneCacheEntry(A, Head(A.keys))
                       ELSE A
    IN  IF K2.err # "" THEN K2
        ELSE [K2 EXCEPT !.vnodes[v].shouldKeepAlive = TRUE, !.current = v]

\* renderer.ts processComponent(null, n2): a kept-alive vnode is activated,
\* any other is mounted with a new instance whose setup() runs
processComponent(K, v) ==
    IF K.vnodes[v].keptAlive
    THEN activate(K, v)
    ELSE LET used == {i \in VNodeIds : K.comps[i].place # "none"}
             i == Cardinality(used) + 1
         IN  [K EXCEPT !.vnodes[v].component = i,
                       !.comps[i] = [place |-> "tree", scopeActive |-> TRUE,
                                     isDeactivated |-> FALSE, setups |-> 1,
                                     unmounts |-> 0]]

\* componentUpdateFn of KeepAlive: patch(prevTree, nextTree) and the hook
patchSubTree(K, v) ==
    LET prev == K.subTree
        same == /\ prev # 0
                /\ K.vnodes[prev].type = K.vnodes[v].type
                /\ K.vnodes[prev].key = K.vnodes[v].key
        P == IF prev = 0 THEN processComponent(K, v)
             ELSE IF same
             THEN \* updateComponent: n2.component = n1.component
                  [K EXCEPT !.vnodes[v].component = K.vnodes[prev].component]
             ELSE processComponent(rendererUnmount(K, prev), v)
    IN  [P EXCEPT !.subTree = v, !.post = SetAdd(@, <<"cacheSubtree", 0>>)]

\* the post-render effects, in the order they were queued
RECURSIVE runKeepAliveCbs(_, _)
runKeepAliveCbs(K, cbs) ==
    IF cbs = <<>> THEN K
    ELSE LET cb == Head(cbs)
             K1 == IF cb[1] = "cacheSubtree"
                   THEN (IF K.pendingCacheKey # NoKey
                         THEN [K EXCEPT !.cache[K.pendingCacheKey] = K.subTree]
                         ELSE K)
                   ELSE [K EXCEPT !.comps[cb[2]].isDeactivated =
                                     (cb[1] = "deactivated")]
         IN  runKeepAliveCbs(K1, Tail(cbs))

\* setup() has run, nothing was rendered yet
InitKeepAlive ==
    /\ kaMax \in MaxSizes
    /\ cache = [k \in CacheKeys |-> 0]
    /\ keys = <<>>
    /\ current = 0
    /\ pendingCacheKey = NoKey
    /\ subTree = 0
    /\ vnodes = [v \in VNodeIds |-> UnusedVNode]
    /\ comps = [i \in VNodeIds |-> NoComp]
    /\ kaPostCbs = <<>>
    /\ kaThrown = ""
    /\ lastUse = [k \in CacheKeys |-> 0]
    /\ evicted = [key |-> NoKey, comp |-> 0, lru |-> TRUE]

Rendered == {v \in VNodeIds : vnodes[v].key # NoKey}

\* KeepAlive's update job runs: the slot renders child
RenderKeepAlive(child) ==
    /\ kaThrown = ""
    /\ ~kaUnmounted
    /\ Cardinality(Rendered) < MaxRenders
    /\ LET v == Cardinality(Rendered) + 1
           K0 == [KeepAlive EXCEPT !.vnodes[v] = NewVNode(child),
                                   !.pendingCacheKey = NoKey]
       IN  \E K \in {keepAliveRender(K0, v, kaMax)} :
              IF K.err # "" THEN CommitKeepAlive(K)
              ELSE CommitKeepAlive(patchSubTree(K, v))
    /\ UNCHANGED kaMax
    /\ UNCHANGED notKa

\* the flush reaches its post-flush callbacks
KeepAliveFlushPost ==
    /\ kaThrown = ""
    /\ kaPostCbs # <<>>
    /\ CommitKeepAlive(
          [runKeepAliveCbs(KeepAlive, kaPostCbs) EXCEPT !.post = <<>>])
    /\ UNCHANGED kaMax
    /\ UNCHANGED notKa

\* the onBeforeUnmount hook of KeepAlive: cache.forEach over the cached
\* vnodes in ks
RECURSIVE unmountCached(_, _)
unmountCached(K, ks) ==
    IF ks = {} THEN K
    ELSE LET key == CHOOSE k \in ks : TRUE
             cached == K.cache[key]
             vnode == K.subTree
             K1 == IF K.vnodes[cached].type = K.vnodes[vnode].type
                   THEN \* current instance will be unmounted as part of
                        \* keep-alive's unmount
                        [resetShapeFlag(K, vnode) EXCEPT
                            !.post = Append(@, <<"deactivated",
                                                 K.vnodes[vnode].component>>)]
                   ELSE keepAliveUnmount(K, cached)
         IN  unmountCached(K1, ks \ {key})

\* renderer.ts unmountComponent(KeepAlive's instance): the beforeUnmount
\* hooks, then unmount(subTree)
unmountKeepAlive(K) ==
    LET K1 == unmountCached(K, {k \in CacheKeys : K.cache[k] # 0})
    IN  rendererUnmount(K1, K1.subTree)

KeepAliveNotUnmounted == kaUnmounted = FALSE

\* the parent stops rendering KeepAlive
UnmountKeepAlive ==
    /\ kaThrown = ""
    /\ ~kaUnmounted
    /\ subTree # 0
    /\ kaUnmounted' = TRUE
    /\ CommitKeepAlive(unmountKeepAlive(KeepAlive))
    /\ UNCHANGED kaMax
    /\ UNCHANGED notKaEnd
(***************************************************************************)
(* Part 7, effect scopes.  The scenario of Part 1 with its effects created *)
(* inside scopes:                                                          *)
(*   const S = new EffectScope(true)        // as a component instance has *)
(*   S.run(() => {                                                         *)
(*     tern = effect(..., { lazy: true }); onScopeDispose(...)             *)
(*     C1 = effectScope(); C1.run(() => { free = effect(...); onScopeDispose(...) }) *)
(*     C2 = effectScope(); C2.run(() => onScopeDispose(...))               *)
(*     D = effectScope(true); D.run(() => { c = computed(...); onScopeDispose(...) }) *)
(*   })                                                                    *)
(* A scope is a record of the fields of class EffectScope; cleanups counts *)
(* the calls of the one cleanup registered in the scope; index and the     *)
(* positions in scopes are 1-based.                                        *)
(***************************************************************************)
ScopeIds == {"S", "C1", "C2", "D"}
NoScope == "undefined"

\* the effects created while the scope was the active one (recordEffectScope)
RecordedIn(sc) ==
    CASE sc = "S" -> <<"tern">>
      [] sc = "C1" -> <<"free">>
      [] sc = "C2" -> <<>>
      [] sc = "D" -> <<"comp">>

\* the scope that was active when a non-detached scope was constructed
CreatedIn(sc) == IF sc \in {"C1", "C2"} THEN "S" ELSE NoScope

\* the state after the scopes and their effects were created
InitScope ==
    effectScopes =
        [sc \in ScopeIds |->
            [active |-> TRUE,
             effects |-> RecordedIn(sc),
             cleanups |-> 0,
             parent |-> CreatedIn(sc),
             index |-> CASE sc = "C1" -> 1 [] sc = "C2" -> 2 [] OTHER -> 0,
             scopes |-> IF sc = "S" THEN <<"C1", "C2">> ELSE <<>>]]

\* this.effects.forEach(e => e.stop())
RECURSIVE stopEffects(_, _)
stopEffects(E, es) ==
    IF es = <<>> THEN E ELSE stopEffects(stop(E, Head(es)), Tail(es))

\* EffectScope.stop(fromParent) on the pair Z of the engine and the scopes
RECURSIVE stopScope(_, _, _)
RECURSIVE stopScopes(_, _)
stopScopes(Z, ss) ==
    IF ss = <<>> THEN Z ELSE stopScopes(stopScope(Z, Head(ss), TRUE), Tail(ss))

stopScope(Z, sc, fromParent) ==
    IF ~Z.S[sc].active THEN Z
    ELSE LET Z1 == [Z EXCEPT !.E = stopEffects(Z.E, Z.S[sc].effects)]
             Z2 == [Z1 EXCEPT !.S[sc].cleanups = @ + 1]
             Z3 == stopScopes(Z2, Z2.S[sc].scopes)
             p == Z3.S[sc].parent
             Z4 == IF p # NoScope /\ ~fromParent /\ Z3.S[p].scopes # <<>>
                   THEN LET ps == Z3.S[p].scopes
                            last == ps[Len(ps)]
                            popped == SubSeq(ps, 1, Len(ps) - 1)
                        IN  IF last # sc
                            THEN [Z3 EXCEPT
                                    !.S[p].scopes =
                                        [popped EXCEPT ![Z3.S[sc].index] = last],
                                    !.S[last].index = Z3.S[sc].index]
                            ELSE [Z3 EXCEPT !.S[p].scopes = popped]
                   ELSE Z3
         IN  [Z4 EXCEPT !.S[sc].active = FALSE]

\* A script or the free function calls sc.stop(); unmountComponent does so
\* with the scope of the instance.
ScopeStop(sc) ==
    /\ UNCHANGED notRxScope
    /\ CanAct
    /\ LET Z == stopScope([E |-> Engine, S |-> effectScopes], sc, FALSE)
       IN  /\ Commit(Z.E)
           /\ effectScopes' = Z.S
    /\ fuel' = Spent
    /\ UNCHANGED <<cond, frames, reads, everRead, dirty, stale>>


\* ---- EffectScope.run, on and off ----

\* the deepest nesting of scope.run calls
MaxScopeDepth == 2

ScopeRunAtRest ==
    /\ activeEffectScope = NoScope
    /\ effectScopeStack = <<>>
    /\ scopeCalls = <<>>
    /\ scopeThrowing = FALSE

\* on(): pushes the scope and makes it the active one, when it is active
scopeOn(sc) ==
    IF effectScopes[sc].active
    THEN [stack |-> Append(effectScopeStack, sc), active |-> sc]
    ELSE [stack |-> effectScopeStack, active |-> activeEffectScope]

\* off(): pops the stack and makes its new last element the active scope,
\* when the scope is active
scopeOff(sc) ==
    IF effectScopes[sc].active
    THEN LET popped == SubSeq(effectScopeStack, 1, Len(effectScopeStack) - 1)
         IN  [stack |-> popped,
              active |-> IF popped = <<>> THEN NoScope
                         ELSE popped[Len(popped)]]
    ELSE [stack |-> effectScopeStack, active |-> activeEffectScope]

\* the same without the test of this.active
scopeOffAlways(sc) ==
    LET popped == SubSeq(effectScopeStack, 1, Len(effectScopeStack) - 1)
    IN  [stack |-> popped,
         active |-> IF popped = <<>> THEN NoScope ELSE popped[Len(popped)]]

\* sc.run(fn) up to the call of fn: an inactive scope returns at once, an
\* active one runs on() and calls fn.  The frame remembers the stack and
\* the active scope of the moment of the call.
ScopeRun(sc) ==
    /\ ~scopeThrowing
    /\ Len(scopeCalls) < MaxScopeDepth
    /\ IF effectScopes[sc].active
       THEN /\ effectScopeStack' = scopeOn(sc).stack
            /\ activeEffectScope' = scopeOn(sc).active
            /\ scopeCalls' = Append(scopeCalls,
                                    [scope |-> sc,
                                     stack |-> effectScopeStack,
                                     active |-> activeEffectScope])
       ELSE UNCHANGED <<effectScopeStack, activeEffectScope, scopeCalls>>
    /\ UNCHANGED scopeThrowing
    /\ UNCHANGED notScopeRun

\* fn returns (threw = FALSE) or throws (threw = TRUE): the finally block
\* of run calls off(); an error goes on to the caller of run
ScopeRunExit(threw) ==
    /\ scopeCalls # <<>>
    /\ scopeThrowing => threw
    /\ LET f == scopeCalls[Len(scopeCalls)]
           r == scopeOff(f.scope)
       IN  /\ effectScopeStack' = r.stack
           /\ activeEffectScope' = r.active
    /\ scopeCalls' = SubSeq(scopeCalls, 1, Len(scopeCalls) - 1)
    /\ scopeThrowing' = (threw /\ Len(scopeCalls) > 1)
    /\ UNCHANGED notScopeRun

\* the script, or the function a scope runs, calls sc.stop()
ScopeStopInRun(sc) ==
    /\ ~scopeThrowing
    /\ ScopeStop(sc)
(***************************************************************************)
(* Part 8, a reactive array arr = reactive([...]) read and changed by a    *)
(* script and by the free function, and an effect "guard" that reads       *)
(* arr.length and may throw.  An error nobody catches unwinds the call     *)
(* stack: a frame "throw" on top of the stack stands for the error, and    *)
(* one action leaves one call, running its finally block if it has one.    *)
(* A frame "method" is a call of an instrumented array method.             *)
(***************************************************************************)
\* the array holds at most the indexes "0" and "1"; only "0" is ever read
MaxLength == 2
\* entries of trackStack beyond which the function of guard throws no more
MaxTrackStack == 3

\* the integer value of an integer key
keyIndex(k) == IF k = "0" THEN 0 ELSE 1
isIntegerKey(k) == k \in {"0", "1"}
indexKey(i) == IF i = 0 THEN "0" ELSE "1"

\* for (const dep of deps) effects.push(...dep); createDep(effects)
RECURSIVE effectsOf(_, _)
effectsOf(E, ks) ==
    IF ks = <<>> THEN <<>> ELSE E.dep[Head(ks)] \o effectsOf(E, Tail(ks))

\* trigger(target, SET, 'length', n) up to triggerEffects: the effects it
\* will call, or the TypeError of key >= newValue for a symbol key
RECURSIVE lengthKeys(_, _)
lengthKeys(map, n) ==
    IF map = <<>> THEN [keys |-> <<>>, err |-> FALSE]
    ELSE LET k == Head(map)
             r == lengthKeys(Tail(map), n)
         IN  IF k = "length" THEN [r EXCEPT !.keys = <<k>> \o @]
             ELSE IF k = "sym" THEN [keys |-> <<>>, err |-> TRUE]
             ELSE IF isIntegerKey(k) /\ keyIndex(k) >= n
             THEN [r EXCEPT !.keys = <<k>> \o @]
             ELSE r

\* trigger(target, ADD, key) for an integer key of an array: the Dep of
\* the key and the Dep of length, those the depsMap holds
addKeys(map, k) == SelectSeq(<<k, "length">>, LAMBDA x : x \in Range(map))

\* arr = reactive([...]), read by nobody yet
InitArr ==
    /\ arrLength \in 0..MaxLength
    /\ arrDepsMap = <<>>

ArrAtRest == arrLength = 0 /\ arrDepsMap = <<>>

\* A script or the free function reads arr[s] (arr.length for "length").
ReadArr(s) ==
    /\ UNCHANGED notRxArr
    /\ CanAct
    /\ ReadBy(Engine, s)
    /\ arrDepsMap' = IF isTracking(Engine) THEN SetAdd(arrDepsMap, s)
                     ELSE arrDepsMap
    /\ fuel' = Spent
    /\ UNCHANGED <<cond, frames, everRead, dirty, stale, arrLength>>

\* The function of guard reads arr.length.
GuardRead ==
    /\ UNCHANGED notRxArr
    /\ InFn /\ Top.e = "guard" /\ Top.left > 0
    /\ ReadBy(Engine, "length")
    /\ arrDepsMap' = IF isTracking(Engine) THEN SetAdd(arrDepsMap, "length")
                     ELSE arrDepsMap
    /\ frames' = [frames EXCEPT ![Len(frames)].left = @ - 1]
    /\ UNCHANGED <<cond, everRead, fuel, dirty, stale, arrLength>>

\* A script or the free function calls arr.push(x): the wrapper pauses
\* tracking and calls Array.prototype.push on the proxy, which reads
\* length and sets arr[length] = x; the set trap triggers ADD for the new
\* index (the set of length that follows changes nothing and triggers
\* nothing).  The wrapper goes on when the triggered effects have run.
CallPush ==
    /\ UNCHANGED notRxArr
    /\ CanAct
    /\ arrLength < MaxLength
    /\ LET E1 == track(pauseTracking(Engine), "length")
           ks == addKeys(arrDepsMap, indexKey(arrLength))
       IN  /\ Commit(E1)
           /\ frames' = frames \o <<Frame("method", NoEffect, <<>>),
                                    Frame("trig", NoEffect,
                                          dedupe(effectsOf(E1, ks)))>>
    /\ arrLength' = arrLength + 1
    /\ fuel' = Spent
    /\ UNCHANGED <<cond, reads, everRead, dirty, stale, arrDepsMap>>

\* The array method returned: resetTracking() and the return of the wrapper.
MethodReturn ==
    /\ UNCHANGED notRxArr
    /\ Len(frames) > 0 /\ Top.kind = "method"
    /\ Commit(resetTracking(Engine))
    /\ frames' = Pop
    /\ fuel' = Refuel(Pop)
    /\ UNCHANGED <<cond, reads, everRead, dirty, stale, arrLength, arrDepsMap>>

\* A script or the free function sets arr.length = n, a changed value: the
\* set trap triggers SET for the key length.
SetLength(n) ==
    /\ UNCHANGED notRxArr
    /\ CanAct
    /\ n # arrLength
    /\ LET r == lengthKeys(arrDepsMap, n)
       IN  frames' = Append(frames,
                IF r.err THEN Frame("throw", NoEffect, <<>>)
                ELSE Frame("trig", NoEffect, dedupe(effectsOf(Engine, r.keys))))
    /\ arrLength' = n
    /\ fuel' = Spent
    /\ EngineUnchanged
    /\ UNCHANGED <<cond, reads, everRead, dirty, stale, arrDepsMap>>

\* The function of guard throws an Error.
Throw ==
    /\ UNCHANGED notRxArr
    /\ InFn /\ Top.e = "guard" /\ Top.left = 0
    /\ Len(trackStack) <= MaxTrackStack
    /\ frames' = Append(frames, Frame("throw", NoEffect, <<>>))
    /\ EngineUnchanged
    /\ UNCHANGED <<cond, reads, everRead, fuel, dirty, stale, arrLength,
                   arrDepsMap>>

\* The error leaves the innermost call: run() has a finally block, the
\* wrapper of an array method and the loop of triggerEffects have none.
\* With no call left the error has reached the script.
Unwind ==
    /\ UNCHANGED notRxArr
    /\ Len(frames) > 0 /\ Top.kind = "throw"
    /\ IF Len(frames) = 1
       THEN /\ frames' = <<>>
            /\ EngineUnchanged
       ELSE LET f == frames[Len(frames) - 1]
            IN  /\ frames' = SubSeq(frames, 1, Len(frames) - 2) \o <<Top>>
                /\ IF f.kind = "run"
                   THEN Commit(runFinally(Engine, f.e))
                   ELSE EngineUnchanged
    /\ fuel' = Refuel(SubSeq(frames', 1, Len(frames') - 1))
    /\ UNCHANGED <<cond, reads, everRead, dirty, stale, arrLength, arrDepsMap>>

(***************************************************************************)
(* Part 9, getSequence called on its own: the argument is any array of     *)
(* the kind patchKeyedChildren builds (newIndexToOldIndexMap: 0 for a new  *)
(* node, otherwise the old index + 1).                                     *)
(***************************************************************************)
\* the longest array
MaxSeqLen == 4
\* the greatest entry
MaxSeqVal == 3

SeqInputs == UNION {[1..n -> 0..MaxSeqVal] : n \in 1..MaxSeqLen}

\* getSequence was not called
NotCalled == <<-1>>

SeqAtRest == seqArr = <<>> /\ seqOut = NotCalled

InitSeq == seqArr \in SeqInputs /\ seqOut = NotCalled

GetSequence ==
    /\ seqOut = NotCalled
    /\ seqOut' = getSequence(seqArr)
    /\ UNCHANGED seqArr
    /\ UNCHANGED notSeq

(***************************************************************************)
(* Part 10: deferredComputed.  One deferred computed whose getter reads    *)
(* one reactive state, the effects that read its value, and the microtask  *)
(* that flushes the queue of deferredComputed.ts.                          *)
(***************************************************************************)

\* the values of the state the getter reads
MaxSource == 2
\* the effects that may read the deferred computed
Subscribers == {"s1", "s2"}

\* _value before the first run of the getter
NoValue == MaxSource + 1
\* this.dep before the first tracked read
NoDep == {"undefined"}
\* no change in this tick so far
NoChange == MaxSource + 2

\* the getter: 0 and 2 give the same value
Getter(a) == a % 2

\* the job without its test
alwaysDiffers(v, valueToCompare) == TRUE

\* the test of the queued job
valueDiffers(v, valueToCompare) == v # valueToCompare

DcAtRest ==
    /\ dcSource = 0
    /\ dcValue = NoValue
    /\ dcDirty = TRUE
    /\ dcDep = NoDep
    /\ dcActive = TRUE
    /\ dcTracks = FALSE
    /\ dcScheduled = FALSE
    /\ dcValueToCompare = NoValue
    /\ dcQueue = <<>>
    /\ dcQueued = FALSE
    /\ dcNotified = {}
    /\ dcBefore = NoChange
    /\ dcBeforeSubscribed = NoChange

\* deferredComputed(getter): the fields after the constructor
InitDc == DcAtRest

\* _get(): the value, and the fields it leaves
dcGet ==
    IF dcDirty
    THEN [value |-> Getter(dcSource), tracks |-> dcTracks \/ dcActive]
    ELSE [value |-> dcValue, tracks |-> dcTracks]

\* get value() outside of every effect: trackRefValue does nothing
DcRead ==
    /\ dcValue' = dcGet.value
    /\ dcTracks' = dcGet.tracks
    /\ dcDirty' = FALSE
    /\ UNCHANGED <<dcSource, dcDep, dcActive, dcScheduled, dcValueToCompare,
                   dcQueue, dcQueued, dcNotified, dcBefore, dcBeforeSubscribed>>
    /\ UNCHANGED notDc

\* effect(() => c.value) is created: trackRefValue creates this.dep and
\* subscribes the effect, then _get()
DcSubscribe(s) ==
    /\ s \notin (IF dcDep = NoDep THEN {} ELSE dcDep)
    /\ dcDep' = (IF dcDep = NoDep THEN {} ELSE dcDep) \cup {s}
    /\ dcValue' = dcGet.value
    /\ dcTracks' = dcGet.tracks
    /\ dcDirty' = FALSE
    /\ UNCHANGED <<dcSource, dcActive, dcScheduled, dcValueToCompare, dcQueue,
                   dcQueued, dcNotified, dcBefore, dcBeforeSubscribed>>
    /\ UNCHANGED notDc

\* the state is set to another value: trigger calls the scheduler of
\* this.effect when the effect is subscribed to the state
DcSet(v) ==
    /\ v # dcSource
    /\ dcSource' = v
    /\ dcBefore' = IF dcBefore = NoChange THEN Getter(dcSource) ELSE dcBefore
    /\ dcBeforeSubscribed' =
           IF dcBeforeSubscribed = NoChange /\ dcTracks /\ dcDep # NoDep
           THEN Getter(dcSource) ELSE dcBeforeSubscribed
    /\ IF dcTracks
       THEN /\ IF dcDep # NoDep /\ ~dcScheduled
               THEN /\ dcValueToCompare' = dcValue
                    /\ dcScheduled' = TRUE
                    /\ dcQueue' = Append(dcQueue, "job")
                    /\ dcQueued' = TRUE
               ELSE UNCHANGED <<dcValueToCompare, dcScheduled, dcQueue,
                                dcQueued>>
            /\ dcDirty' = TRUE
       ELSE UNCHANGED <<dcValueToCompare, dcScheduled, dcQueue, dcQueued,
                        dcDirty>>
    /\ UNCHANGED <<dcValue, dcDep, dcActive, dcTracks, dcNotified>>
    /\ UNCHANGED notDc

\* this.effect.stop()
DcStop ==
    /\ dcActive
    /\ dcActive' = FALSE
    /\ dcTracks' = FALSE
    /\ UNCHANGED <<dcSource, dcValue, dcDirty, dcDep, dcScheduled,
                   dcValueToCompare, dcQueue, dcQueued, dcNotified, dcBefore,
                   dcBeforeSubscribed>>
    /\ UNCHANGED notDc

\* the microtask: flush() runs the queued job, which triggers the effects
\* of this.dep when the value of _get() is not valueToCompare; the effects
\* read the value again.  The tick is over.
DcFlush ==
    /\ dcQueued
    /\ LET differs == dcActive /\ valueDiffers(dcGet.value, dcValueToCompare)
       IN  /\ dcValue' = IF dcActive THEN dcGet.value ELSE dcValue
           /\ dcTracks' = IF dcActive THEN dcGet.tracks ELSE dcTracks
           /\ dcDirty' = IF dcActive THEN FALSE ELSE dcDirty
           /\ dcNotified' = IF differs THEN dcDep ELSE {}
    /\ dcScheduled' = FALSE
    /\ dcQueue' = <<>>
    /\ dcQueued' = FALSE
    /\ dcBefore' = NoChange
    /\ dcBeforeSubscribed' = NoChange
    /\ UNCHANGED <<dcSource, dcDep, dcActive, dcValueToCompare>>
    /\ UNCHANGED notDc

\* a tick in which nothing was queued is over
DcTickEnds ==
    /\ ~dcQueued
    /\ dcBefore # NoChange
    /\ dcBefore' = NoChange
    /\ dcBeforeSubscribed' = NoChange
    /\ UNCHANGED <<dcSource, dcValue, dcDirty, dcDep, dcActive, dcTracks,
                   dcScheduled, dcValueToCompare, dcQueue, dcQueued,
                   dcNotified>>
    /\ UNCHANGED notDc

(***************************************************************************)
(* Part 11: watch(source, cb).  The source effect of the watcher is the    *)
(* effect "free" of Part 1: its getter reads state and may call the stop   *)
(* handle.  The scheduler of the effect queues the job of the watcher.     *)
(***************************************************************************)

WatchAtRest ==
    /\ wJob = "new"
    /\ wQueued = FALSE
    /\ wChanged = FALSE
    /\ wCalled = FALSE
    /\ wCalledAfterStop = FALSE

\* the script, or the getter while it runs, may make a call
WatchCanCall ==
    IF frames = <<>> THEN wJob \in {"new", "idle"} ELSE wJob \in {"init", "job"}

\* doWatch up to the getter: oldValue = effect.run()
DoWatch ==
    /\ wJob = "new" /\ frames = <<>>
    /\ LET r == run(Engine, frames, "free")
       IN  /\ Commit(r.E)
           /\ frames' = r.frames
           /\ reads' = ReadsAfterRun(r, "free")
    /\ fuel' = Spent
    /\ wJob' = "init"
    /\ UNCHANGED <<cond, everRead, dirty, stale>>
    /\ UNCHANGED <<wQueued, wChanged, wCalled, wCalledAfterStop>>
    /\ UNCHANGED notRxWatch

\* the script sets state[s]: trigger calls the scheduler of every effect of
\* the Dep, and the scheduler of the watcher queues its job
WatchTrigger(s) ==
    /\ wJob = "idle" /\ frames = <<>>
    /\ wQueued' = (wQueued \/ "free" \in Range(dep[s]))
    /\ wChanged' = TRUE
    /\ cond' = IF s = "cond" THEN ~cond ELSE cond
    /\ EngineUnchanged
    /\ UNCHANGED <<frames, reads, everRead, dirty, stale, fuel>>
    /\ UNCHANGED <<wJob, wCalled, wCalledAfterStop>>
    /\ UNCHANGED notRxWatch

\* the flush calls the job: it returns when the effect is not active, else
\* it runs the getter
WatchFlush ==
    /\ wJob = "idle" /\ frames = <<>>
    /\ wQueued
    /\ wQueued' = FALSE
    /\ IF active["free"]
       THEN /\ LET r == run(Engine, frames, "free")
               IN  /\ Commit(r.E)
                   /\ frames' = r.frames
                   /\ reads' = ReadsAfterRun(r, "free")
            /\ fuel' = Spent
            /\ wJob' = "job"
       ELSE /\ EngineUnchanged
            /\ UNCHANGED <<frames, reads, fuel, wJob>>
    /\ UNCHANGED <<cond, everRead, dirty, stale>>
    /\ UNCHANGED <<wChanged, wCalled, wCalledAfterStop>>
    /\ UNCHANGED notRxWatch

\* effect.run() returned: doWatch keeps the value; the job invokes the
\* callback when the value has changed
WatchAfterRun ==
    /\ wJob \in {"init", "job"} /\ frames = <<>>
    /\ wJob' = "idle"
    /\ wChanged' = FALSE
    /\ IF wJob = "job" /\ wChanged
       THEN /\ wCalled' = TRUE
            /\ wCalledAfterStop' = (wCalledAfterStop \/ ~active["free"])
       ELSE UNCHANGED <<wCalled, wCalledAfterStop>>
    /\ UNCHANGED wQueued
    /\ UNCHANGED rxVars
    /\ UNCHANGED notRxWatch

\* the getter reads state[s]
WatchGetterReads(s) ==
    /\ wJob \in {"init", "job"} /\ frames # <<>>
    /\ Track(s)

\* the stop handle doWatch returned is called, by the script or by the
\* getter in a run of the job: effect.stop()
WatchStop ==
    /\ WatchCanCall
    /\ wJob \in {"idle", "job"}
    /\ CallStop("free")

\* the getter returns: the finally block of run()
WatchGetterReturns ==
    /\ wJob \in {"init", "job"}
    /\ FnReturn
(***************************************************************************)
(* The specifications.  Each runs one part of the model; the other parts   *)
(* stay in the state they are constructed in.                              *)
(***************************************************************************)
SetterAtRest ==
    /\ InitSetter
    /\ ~tArray /\ ~tShallow
    /\ refValue = [r \in Refs |-> "1"]

RxAtRest == InitRx /\ ~cond

\* the parts a specification does not run
MoreAtRest ==
    /\ SeqAtRest /\ KeepAliveNotUnmounted /\ ScopeRunAtRest /\ DcAtRest
    /\ WatchAtRest

KeepAliveAtRest == InitKeepAlive /\ kaMax = 1

OthersAtRest ==
    InitSuspense /\ KeepAliveAtRest /\ InitScope /\ ArrAtRest /\ MoreAtRest

\* effects and plain state
Init == InitRx /\ SetterAtRest /\ InitSched /\ InitDiff /\ OthersAtRest

Next ==
    \/ \E s \in StateSlots : Track(s)
    \/ TernRead
    \/ \E s \in StateSlots : Trigger(s)
    \/ TriggerStep
    \/ \E e \in {"tern", "free"} : CallRun(e)
    \/ \E e \in {"tern", "free"} : CallStop(e)
    \/ FnReturn

Spec == Init /\ [][Next]_vars

\* a computed ref, its dependencies and an effect that may read it
NextComputed ==
    \/ \E s \in {"a", "b"} : Track(s)
    \/ GetterRead
    \/ \E s \in {"a", "b"} : Trigger(s)
    \/ TriggerStep
    \/ CallRun("free")
    \/ CallStop("free")
    \/ FnReturn
    \/ ReadComputed

SpecComputed == Init /\ [][NextComputed]_vars

\* a reactive proxy holding refs
InitSetterSpec == RxAtRest /\ InitSetter /\ InitSched /\ InitDiff /\ OthersAtRest

NextSetter ==
    \/ \E k \in Keys, v \in Values : SetProp(k, v)
    \/ \E r \in Refs, n \in Nums : SetRefValue(r, n)

SpecSetter == InitSetterSpec /\ [][NextSetter]_vars

\* the scheduler and three nested components
InitSchedSpec == RxAtRest /\ SetterAtRest /\ InitSched /\ InitDiff /\ OthersAtRest

NextSched ==
    \/ \E job \in Jobs : QueueJob(job)
    \/ \E cb \in PreCbs : QueuePreFlushCb(cb)
    \/ \E cb \in PostCbs : QueuePostFlushCb(cb)
    \/ \E c \in Jobs \ {1} : UnmountChild(c)
    \/ \E c \in Jobs \ {1} : UpdateChild(c)
    \/ FlushJobs
    \/ PreFlushStep
    \/ RunJob
    \/ EndOfQueue
    \/ PostFlushStep
    \/ SchedReturn

SpecSched == InitSchedSpec /\ [][NextSched]_vars

\* a script that renders two trees, in callbacks too: component 1 is the
\* root of one tree and, in this specification, component 3 the root of
\* another; the microtask of the flush does not run before the script ends
InitNestedSpec ==
    RxAtRest /\ SetterAtRest /\ InitSchedWith(MaxNestedCalls) /\ InitDiff
    /\ OthersAtRest

NextNested ==
    \/ \E job \in {1, 3} : QueueJob(job)
    \/ \E cb \in PreCbs : QueuePreFlushCb(cb)
    \/ \E r \in {1, 3} : RenderRoot(r)
    \/ RenderFlushPost
    \/ PreFlushStep
    \/ SchedReturn

SpecNested == InitNestedSpec /\ [][NextNested]_vars

\* the scheduler with a job and callbacks that enqueue themselves again
\* whenever they run; they make their other calls in their first run
NextRecurse ==
    \/ FirstRun /\ QueueJob(1)
    \/ FirstRun /\ \E cb \in PreCbs : QueuePreFlushCb(cb)
    \/ FirstRun /\ \E cb \in PostCbs : QueuePostFlushCb(cb)
    \/ FirstRun /\ UpdateChild(2)
    \/ RequeueSelf
    \/ FlushJobs
    \/ PreFlushStep
    \/ RunJob
    \/ EndOfQueue
    \/ PostFlushStep
    \/ ReturnOfLooper

\* a function that was called runs to its end, and the microtask runs
SpecRecurse ==
    InitSchedSpec /\ [][NextRecurse]_vars /\ WF_vars(FlushProgress)

\* a parent that renders keyed lists of children
InitDiffSpec == RxAtRest /\ SetterAtRest /\ InitSched /\ InitDiff /\ OthersAtRest

NextDiff == \E c2 \in ChildLists : PatchChildren(c2)

SpecDiff == InitDiffSpec /\ [][NextDiff]_vars


\* a Suspense boundary over async components
InitSuspenseSpec ==
    /\ RxAtRest /\ SetterAtRest /\ InitSched /\ InitDiff
    /\ InitSuspense /\ KeepAliveAtRest /\ InitScope /\ ArrAtRest
    /\ MoreAtRest

NextSuspense ==
    \/ \E t \in BranchTypes, n \in 0..2, timeout \in Timeouts :
          MountSuspense(t, n, timeout)
    \/ \E t \in BranchTypes, remove \in SUBSET Instances, n \in 0..2,
          mountFirst \in BOOLEAN :
          PatchSuspense(t, remove, n, mountFirst)
    \/ \E i \in Instances : Settle(i)
    \/ FlushPost
    \/ UnmountSuspense

SpecSuspense == InitSuspenseSpec /\ [][NextSuspense]_vars

\* a KeepAlive whose slot switches between components
InitKeepAliveSpec ==
    /\ RxAtRest /\ SetterAtRest /\ InitSched /\ InitDiff
    /\ InitSuspense /\ InitKeepAlive /\ InitScope /\ ArrAtRest
    /\ MoreAtRest

NextKeepAlive ==
    \/ \E child \in SlotChildren : RenderKeepAlive(child)
    \/ KeepAliveFlushPost

SpecKeepAlive == InitKeepAliveSpec /\ [][NextKeepAlive]_vars

\* a KeepAlive that is unmounted in the end
NextKeepAliveUnmount ==
    \/ \E child \in SlotChildren : RenderKeepAlive(child)
    \/ KeepAliveFlushPost
    \/ UnmountKeepAlive

SpecKeepAliveUnmount == InitKeepAliveSpec /\ [][NextKeepAliveUnmount]_vars

\* effects and plain state, the effects living in effect scopes; the
\* detached scope D is never stopped
NextScope ==
    \/ \E s \in StateSlots : Track(s)
    \/ TernRead
    \/ \E s \in StateSlots : Trigger(s)
    \/ TriggerStep
    \/ \E e \in {"tern", "free"} : CallRun(e)
    \/ FnReturn
    \/ \E sc \in ScopeIds \ {"D"} : ScopeStop(sc)

SpecScope == Init /\ [][NextScope]_vars

\* the scheduler, the root component and its child, and render() called by
\* the script and by callbacks
NextRender ==
    \/ \E job \in {1, 2} : QueueJob(job)
    \/ \E cb \in PreCbs : QueuePreFlushCb(cb)
    \/ \E cb \in PostCbs \cup RefSetters : QueuePostFlushCb(cb)
    \/ UpdateChild(2)
    \/ Render
    \/ RenderFlushPost
    \/ RenderPostStep
    \/ FlushJobs
    \/ PreFlushStep
    \/ RunJob
    \/ EndOfQueue
    \/ PostFlushStep
    \/ SchedReturn

SpecRender == InitSchedSpec /\ [][NextRender]_vars

\* a reactive array, the free function and an effect that may throw
InitArraySpec ==
    /\ RxAtRest /\ SetterAtRest /\ InitSched /\ InitDiff
    /\ InitSuspense /\ KeepAliveAtRest /\ InitScope /\ InitArr
    /\ MoreAtRest

NextArray ==
    \/ ReadArr("length")
    \/ GuardRead
    \/ CallPush
    \/ MethodReturn
    \/ TriggerStep
    \/ \E e \in {"free", "guard"} : CallRun(e)
    \/ FnReturn
    \/ Throw
    \/ Unwind

SpecArray == InitArraySpec /\ [][NextArray]_vars

\* a reactive array whose length is set, with effects reading its keys
NextLength ==
    \/ \E s \in ArrSlots : ReadArr(s)
    \/ GuardRead
    \/ \E n \in 0..MaxLength : SetLength(n)
    \/ TriggerStep
    \/ \E e \in {"free", "guard"} : CallRun(e)
    \/ FnReturn
    \/ Unwind

\* the array starts with MaxLength elements
InitLengthSpec == InitArraySpec /\ arrLength = MaxLength

SpecLength == InitLengthSpec /\ [][NextLength]_vars

\* getSequence on every array up to the bounds
InitSequenceSpec ==
    /\ RxAtRest /\ SetterAtRest /\ InitSched /\ InitDiff
    /\ InitSuspense /\ KeepAliveAtRest /\ InitScope /\ ArrAtRest
    /\ KeepAliveNotUnmounted /\ ScopeRunAtRest /\ DcAtRest /\ WatchAtRest
    /\ InitSeq

NextSequence == GetSequence

SpecSequence == InitSequenceSpec /\ [][NextSequence]_vars

\* scopes run functions that run and stop scopes
NextScopeRun ==
    \/ \E sc \in ScopeIds : ScopeRun(sc)
    \/ \E threw \in BOOLEAN : ScopeRunExit(threw)
    \/ \E sc \in ScopeIds : ScopeStopInRun(sc)

SpecScopeRun == Init /\ [][NextScopeRun]_vars

\* the scheduler with jobs and callbacks that throw
NextThrow ==
    \/ \E job \in Jobs : QueueJob(job)
    \/ \E cb \in PreCbs : QueuePreFlushCb(cb)
    \/ \E cb \in PostCbs : QueuePostFlushCb(cb)
    \/ FlushJobs
    \/ PreFlushStep
    \/ RunJob
    \/ EndOfQueue
    \/ PostFlushStep
    \/ SchedReturn
    \/ SchedThrow

SpecThrow == InitSchedSpec /\ [][NextThrow]_vars

\* a Suspense boundary inside one or two other boundaries
InitSuspenseNested ==
    /\ RxAtRest /\ SetterAtRest /\ InitSched /\ InitDiff
    /\ \E parents0 \in ParentChains : InitSuspenseIn(parents0)
    /\ KeepAliveAtRest /\ InitScope /\ ArrAtRest /\ MoreAtRest

NextSuspenseNested ==
    \/ \E n \in 0..2 : MountSuspense("p", n, -1)
    \/ \E t \in BranchTypes, remove \in SUBSET Instances, n \in 0..1 :
          PatchSuspense(t, remove, n, FALSE)
    \/ \E i \in Instances : Settle(i)
    \/ FlushPost
    \/ UnmountSuspense
    \/ \E k \in 1..MaxParents : ParentResolves(k)

SpecSuspenseNested == InitSuspenseNested /\ [][NextSuspenseNested]_vars

\* a Suspense boundary whose async components fulfil or reject
NextSuspenseReject ==
    \/ \E t \in BranchTypes, n \in 0..2 : MountSuspense(t, n, -1)
    \/ \E t \in BranchTypes, remove \in SUBSET Instances, n \in 0..2,
          mountFirst \in BOOLEAN :
          PatchSuspense(t, remove, n, mountFirst)
    \/ \E i \in Instances : Settle(i)
    \/ \E i \in Instances : Reject(i)
    \/ FlushPost
    \/ UnmountSuspense

SpecSuspenseReject == InitSuspenseSpec /\ [][NextSuspenseReject]_vars

\* a deferred computed, its state, its readers and the microtask
NextDeferred ==
    \/ DcRead
    \/ \E s \in Subscribers : DcSubscribe(s)
    \/ \E v \in 0..MaxSource : DcSet(v)
    \/ DcStop
    \/ DcFlush
    \/ DcTickEnds

SpecDeferred == Init /\ [][NextDeferred]_vars

\* a watcher whose getter is the free function: it reads state and may call
\* the stop handle; the script sets state, stops the watcher and lets the
\* queued job run
NextWatch ==
    \/ DoWatch
    \/ \E s \in StateSlots : WatchTrigger(s)
    \/ WatchFlush
    \/ WatchAfterRun
    \/ \E s \in StateSlots : WatchGetterReads(s)
    \/ WatchStop
    \/ WatchGetterReturns

SpecWatch == Init /\ [][NextWatch]_vars
(***************************************************************************)
(* Statements about the effects.                                           *)
(***************************************************************************)
\* the effect is not running
Idle(e) == e \notin Range(effectStack)

Subscribed(e, s) == e \in Range(dep[s])

\* C1: an active effect whose latest run read slot S and not slot T is
\* subscribed to S (so that mutating S invokes it) and not to T, after any
\* sequence of runs, nested runs and stops.
C1_ExactSubscription ==
    \A e \in Effects : active[e] /\ Idle(e) =>
        \A s \in Slots : Subscribed(e, s) <=> s \in reads[e]

\* C2: the ternary effect is subscribed to no branch it never read, and
\* after a run that took branch b it is subscribed to b and no longer to a.
C2_TernaryBranches ==
    /\ \A s \in {"a", "b"} : s \notin everRead => ~Subscribed("tern", s)
    /\ active["tern"] /\ Idle("tern") /\ "b" \in reads["tern"] =>
           Subscribed("tern", "b") /\ ~Subscribed("tern", "a")

\* C3: after a completed run the effect's deps hold each Dep it read exactly
\* once, and the effect is a member of exactly those Deps.
C3_OneEdgePerDep ==
    \A e \in Effects : active[e] /\ Idle(e) =>
        /\ Range(deps[e]) = reads[e]
        /\ Len(deps[e]) = Cardinality(reads[e])
        /\ \A s \in Slots : Subscribed(e, s) <=> s \in Range(deps[e])

\* C4: a stopped effect is a member of no Dep (and so no trigger invokes it),
\* whenever stop() was called.
C4_StoppedIsInert ==
    \A e \in Effects : ~active[e] =>
        deps[e] = <<>> /\ \A s \in Slots : ~Subscribed(e, s)

CallsFnOfStopped(e) ==
    /\ ~active[e]
    /\ Len(frames') = Len(frames) + 1
    /\ frames'[Len(frames')].e = e

C6_GetterOncePerChange ==
    CanAct /\ Idle("comp") => (dirty <=> stale)


\* the function of e is executing: a frame of it is on the call stack
Executing(e) ==
    \E i \in 1..Len(frames) : frames[i].kind \in {"run", "plain"} /\ frames[i].e = e

\* the step is the turn of the loop of triggerEffects for effect e
TriggerTurn(e) ==
    /\ Len(frames) > 0 /\ Top.kind = "trig"
    /\ Len(Top.rest) > 0 /\ Head(Top.rest) = e

\* the step calls the function of e
EntersFn(e) ==
    /\ Len(frames') = Len(frames) + 1
    /\ frames'[Len(frames')].kind \in {"run", "plain"}
    /\ frames'[Len(frames')].e = e

\* C23: the turn of triggerEffects for the running effect invokes nothing,
\* unless the effect allows recursion; the turn for any other effect calls
\* its scheduler if it has one and run() otherwise; and no trigger enters
\* the function of an effect that is executing.
C23_TriggerSkipsRunningEffect ==
    [][\A e \in Effects : TriggerTurn(e) =>
          /\ (e = activeEffect /\ ~allowRecurse(e)) =>
                 /\ Len(frames') = Len(frames)
                 /\ UNCHANGED <<active, deps, dep, effectStack, activeEffect,
                                dirty>>
          /\ (e # activeEffect /\ hasScheduler(e)) => dirty' /\ ~EntersFn(e)
          /\ (e # activeEffect /\ ~hasScheduler(e) /\ ~Executing(e)) =>
                 EntersFn(e)
          /\ Executing(e) => ~EntersFn(e)]_vars

\* C39: whenever the effect stack is empty, the marker bitfields w and n of
\* every Dep are 0.
C39_MarkersZeroWhenIdle ==
    effectStack = <<>> => \A s \in Slots : depW[s] = 0 /\ depN[s] = 0
(***************************************************************************)
(* Statements about the set trap.                                          *)
(***************************************************************************)
\* the latest set found a ref in the slot, wrote through it and kept it
WroteThroughRef ==
    /\ slot[setOp.key] = setOp.old
    /\ refValue[setOp.old] = setOp.val
    /\ createGetter(tShallow, setOp.key) = setOp.val

\* C7 as claimed: whenever the slot holds a ref and the incoming value is
\* not a ref, the set trap writes the value through the ref and leaves the
\* same ref in the slot.
C7_RefPreservedAlways ==
    (setOp.kind = "set" /\ isRef(setOp.old) /\ ~isRef(setOp.val)) =>
        WroteThroughRef

\* C7, amended: this holds when the target is not an array, the proxy is
\* not shallow and the incoming value is not a readonly proxy.
C7_RefPreserved ==
    (/\ setOp.kind = "set" /\ isRef(setOp.old) /\ ~isRef(setOp.val)
     /\ ~tArray /\ ~tShallow /\ ~isReadonly(setOp.val)) =>
        WroteThroughRef

\* state.x held a ref with another value, and a number was assigned
C7_Witness ==
    /\ setOp.kind = "set" /\ isRef(setOp.old) /\ setOp.val \in Nums
    /\ ~tArray /\ ~tShallow
    /\ setOp.trig = "ref"
    /\ slot[setOp.key] = setOp.old /\ refValue[setOp.old] = setOp.val


(***************************************************************************)
(* Statements about the scheduler.                                         *)
(***************************************************************************)
\* the loop over the queue calls job c
StartsFromQueue(c) ==
    /\ callStack = <<>>
    /\ callStack' = <<SFrame("job", c, "queue")>>

\* C8: when the flush loop calls the update job of a component, no job of
\* an ancestor component (lower id) is still waiting in the queue behind
\* it, and the component has not been unmounted: a parent's queued job
\* runs before its child's, and the queued job of a child the parent's
\* update unmounted is not executed.
C8_ParentFirstUnmountedSkipped ==
    [][\A c \in Jobs : StartsFromQueue(c) =>
          /\ jobActive[c]
          /\ c \notin unmountedNow
          /\ \A p \in Ancestors(c) : ~includes(queue, p, flushIndex + 1)]_vars

\* the jobs of 1, 2 and 3 were queued; 1 ran first, then 2, whose update
\* unmounted 3, and the loop passed the job of 3 without calling it
C8_Witness ==
    /\ flushPc = "main" /\ callStack = <<>>
    /\ queue = <<1, 2, 3>> /\ flushIndex = 3
    /\ ran = <<1, 2>>
    /\ 3 \in unmountedNow /\ ~jobActive[3]

\* a call by the script, a job or a callback that pushed onto one of the
\* three queues
Enqueues ==
    /\ schedFuel' = schedFuel - 1
    /\ \/ Len(queue') > Len(queue)
       \/ Len(pendingPreFlushCbs') > Len(pendingPreFlushCbs)
       \/ Len(pendingPostFlushCbs') > Len(pendingPostFlushCbs)

\* C15: at any time at most one flush is scheduled or running:
\* isFlushPending and isFlushing are never both true, isFlushPending is
\* true exactly while one flushJobs microtask is waiting, and a call that
\* enqueues into one of the three queues schedules a flush microtask
\* exactly when none is pending and none is running; so any number of
\* enqueues in one tick lead to a single scheduled flush.
C15_OneFlushAtATime ==
    /\ [](/\ ~(isFlushPending /\ isFlushing)
          /\ scheduledFlushes + (IF isFlushing THEN 1 ELSE 0) <= 1
          /\ isFlushPending <=> scheduledFlushes = 1)
    /\ [][Enqueues =>
            (scheduledFlushes' = scheduledFlushes + 1
                <=> ~isFlushing /\ ~isFlushPending)]_vars

\* three enqueues in one tick, into the three queues, and one flush
\* scheduled
C15_Witness ==
    /\ flushPc = "idle" /\ schedFuel = 0
    /\ Len(queue) = 1
    /\ Len(pendingPreFlushCbs) = 1
    /\ Len(pendingPostFlushCbs) = 1
    /\ isFlushPending /\ scheduledFlushes = 1

\* the pre-flush callbacks not yet called: the pending ones and those of
\* the active batch the loop has not reached
PreCbsToRun ==
    Range(pendingPreFlushCbs) \cup
    (IF activePreFlushCbs = NullCbs THEN {}
     ELSE {activePreFlushCbs[i] : i \in (preFlushIndex + 1)..Len(activePreFlushCbs)})

ReturnsToIdle == flushPc # "idle" /\ flushPc' = "idle"

\* C17: when the outermost flushJobs call returns, the main queue and both
\* pending callback lists are empty, isFlushing is false and no flush is
\* pending, and every job or callback enqueued before or during the flush
\* has been called, unless it was invalidated, inactive or skipped by the
\* recursion limit.
C17_FlushDrains ==
    [][ReturnsToIdle =>
          /\ queue' = <<>>
          /\ pendingPreFlushCbs' = <<>>
          /\ pendingPostFlushCbs' = <<>>
          /\ ~isFlushing' /\ ~isFlushPending'
          /\ owed' = {}]_vars

\* the flush has returned after running job 1 twice (it was enqueued again
\* during the flush) and the post-flush callback
C17_Witness ==
    /\ flushPc = "idle" /\ ~isFlushPending
    /\ calls[1] = 2 /\ calls[12] = 1
    /\ queue = <<>> /\ owed = {}

C18_LimitPerFlush ==
    \A fn \in Callables : calls[fn] + drainCalls[fn] <= RECURSION_LIMIT + 1

\* C18: in development mode a flush ends even when a job or a callback
\* enqueues itself again every time it runs: the loops of flushJobs, which
\* share one count map, call no job or callback more than
\* RECURSION_LIMIT + 1 times, and so does each pre-flush drain made by a
\* component's update, which counts in a map of its own; a job or callback
\* over the limit is skipped, and when flushJobs returns every other job
\* and callback that was enqueued has been called and the queues are empty.
C18_LimitPerCountMap ==
    /\ [](\A fn \in Callables :
             /\ calls[fn] <= RECURSION_LIMIT + 1
             /\ drainCalls[fn] <= RECURSION_LIMIT + 1)
    /\ [][ReturnsToIdle =>
             /\ owed' = {}
             /\ queue' = <<>>
             /\ pendingPreFlushCbs' = <<>>
             /\ pendingPostFlushCbs' = <<>>]_vars
    /\ (flushPc # "idle") ~> (flushPc = "idle")

\* job 1 and the watcher's job enqueued themselves in every run, each was
\* called RECURSION_LIMIT + 1 times and then skipped, and the post-flush
\* callback of the same flush is running
C18_Witness ==
    /\ flushPc = "post" /\ callStack # <<>> /\ STop.job = 12
    /\ calls[1] = RECURSION_LIMIT + 1 /\ seen[1] = RECURSION_LIMIT + 1
    /\ calls[11] = RECURSION_LIMIT + 1
    /\ queue = <<>>

\* the job of component c is in the queue at an index the loop over the
\* queue has not reached
WaitsInQueue(c) ==
    \E i \in 0..(Len(queue) - 1) :
        /\ queue[i + 1] = c
        /\ flushPc = "main" => i > flushIndex

\* the step is an updateComponent of c, which calls invalidateJob
Invalidates(c) == UpdateChild(c) \/ (c = 1 /\ Render)

\* C21: when updateComponent invalidates the job of a component that waits
\* in the queue, during a flush or outside one, the job is in the queue no
\* more, so only the update made at once renders the component.
C21_InvalidatedJobLeavesQueue ==
    [][\A c \in Jobs : (WaitsInQueue(c) /\ Invalidates(c)) =>
          ~includes(queue', c, 0)]_vars

\* the callbacks of the post-flush batch in progress that were called so
\* far, in the order of their calls
PostCbsCalled ==
    LET running == \E i \in 1..Len(callStack) :
                       callStack[i].kind = "cb" /\ callStack[i].from = "post"
        n == IF running THEN postFlushIndex + 1 ELSE postFlushIndex
    IN  IF activePostFlushCbs = NullCbs THEN <<>>
        ELSE SubSeq(activePostFlushCbs, 1, n)

\* C22: the callbacks of one post-flush batch are called in ascending order
\* of their ids and none is called twice in the batch, nested calls of
\* flushPostFlushCbs included.
C22_PostBatchAscendingOnce ==
    \A i, j \in 1..Len(PostCbsCalled) : i < j =>
        /\ getId(PostCbsCalled[i]) <= getId(PostCbsCalled[j])
        /\ PostCbsCalled[i] # PostCbsCalled[j]

\* flushPreFlushCbs(seen, c) is on the call stack
DrainOf(c) ==
    \E i \in 1..Len(callStack) :
        callStack[i].kind = "preflush" /\ callStack[i].job = c

\* the step returns from the last batch of a nested flushPreFlushCbs
DrainEnds ==
    /\ callStack # <<>> /\ STop.kind = "preflush"
    /\ callStack' = SPop

\* C27: while flushPreFlushCbs(seen, parentJob) runs its callbacks,
\* queueJob(parentJob) changes neither the queue nor the scheduled flushes;
\* when the drain returns no parent job is set, and from then on
\* queueJob(parentJob) enqueues the job unless it already waits in the
\* queue.
C27_ParentJobNotQueuedInDrain ==
    [][/\ \A job \in Jobs : QueueJob(job) =>
             IF DrainOf(job)
             THEN queue' = queue /\ scheduledFlushes' = scheduledFlushes
             ELSE \/ Len(queue) > 0 /\ includes(queue, job, flushIndex)
                  \/ /\ Len(queue') = Len(queue) + 1
                     /\ includes(queue', job, 0)
       /\ DrainEnds => currentPreFlushParentJob' = NoJob]_vars

\* no flush is in progress and no microtask of the scheduler is running
SchedulerIdle == flushPc = "idle" /\ callStack = <<>>

\* C34: once flushJobs is left, also by an error thrown by a job or a
\* callback of the pre-flush, main or post-flush phase, isFlushing is false
\* and no active pre-flush or post-flush batch is left behind.
C34_NotWedgedAfterThrow ==
    SchedulerIdle =>
        /\ isFlushing = FALSE
        /\ activePreFlushCbs = NullCbs
        /\ activePostFlushCbs = NullCbs

\* the other half of C34: a job enqueued while no flush is in progress or
\* pending has a flush scheduled for it
C34_EnqueuedIsScheduled ==
    (SchedulerIdle /\ Len(queue) > 0) => scheduledFlushes > 0

(***************************************************************************)
(* Statements about the keyed child diff.                                  *)
(***************************************************************************)
KeysOf(l) == {l[i].key : i \in 1..Len(l)}
ChildWithKey(l, k) == l[CHOOSE i \in 1..Len(l) : l[i].key = k]

\* the host children stand in the order of the new list
HostInOrder == host = [i \in 1..Len(children) |-> children[i].el]

\* keys only in the old list were unmounted once, keys only in the new list
\* were mounted once
OneSidedKeys ==
    /\ \A k \in KeysOf(prevChildren) \ KeysOf(children) :
          unmountCount[k] = 1 /\ mountCount[k] = 0
    /\ \A k \in KeysOf(children) \ KeysOf(prevChildren) :
          mountCount[k] = 1 /\ unmountCount[k] = 0
    /\ \A k \in ChildKeys \ (KeysOf(children) \cup KeysOf(prevChildren)) :
          mountCount[k] = 0 /\ unmountCount[k] = 0

\* key k kept the host node it had before the patch
KeptNode(k) ==
    /\ mountCount[k] = 0 /\ unmountCount[k] = 0
    /\ ChildWithKey(children, k).el = ChildWithKey(prevChildren, k).el

\* C9 as claimed: after a patch of lists with unique keys the host order
\* is the new list's, every key in both lists kept its host node, every
\* key only in the old list was unmounted once and every key only in the
\* new list was mounted once.
C9_KeyKeepsNode ==
    /\ HostInOrder
    /\ OneSidedKeys
    /\ \A k \in KeysOf(prevChildren) \cap KeysOf(children) : KeptNode(k)

\* C9, amended: a key in both lists keeps its host node when its vnode has
\* the same type in both; when the type differs the old node is unmounted
\* once and a new one mounted once.
C9_SameTypeKeepsNode ==
    /\ HostInOrder
    /\ OneSidedKeys
    /\ \A k \in KeysOf(prevChildren) \cap KeysOf(children) :
          IF ChildWithKey(children, k).type = ChildWithKey(prevChildren, k).type
          THEN KeptNode(k)
          ELSE /\ mountCount[k] = 1 /\ unmountCount[k] = 1
               /\ ChildWithKey(children, k).el.fresh

\* [2, 3] was patched to [3, 1]: 3 kept its node, 2 went, 1 came
C9_Witness ==
    /\ [i \in 1..Len(prevChildren) |-> prevChildren[i].key] = <<2, 3>>
    /\ [i \in 1..Len(children) |-> children[i].key] = <<3, 1>>
    /\ KeptNode(3)
    /\ unmountCount[2] = 1 /\ mountCount[1] = 1
    /\ HostInOrder

\* the length of the longest strictly increasing subsequence of the
\* non-zero entries of arr
LongestIncreasing(arr) ==
    LET ok(S) == \A i, j \in S : arr[i] # 0 /\ (i < j => arr[i] < arr[j])
        sizes == {Cardinality(S) : S \in {T \in SUBSET (1..Len(arr)) : ok(T)}}
    IN  CHOOSE n \in sizes : \A m \in sizes : m <= n

Matched == {i \in 1..Len(lastMap) : lastMap[i] # 0}
Stable == {i \in Matched : \E j \in 1..Len(lastSeq) : lastSeq[j] = i - 1}
RECURSIVE SumUpTo(_, _)
SumUpTo(f, n) == IF n = 0 THEN 0 ELSE f[n] + SumUpTo(f, n - 1)
TotalMoves == SumUpTo(moveCount, MaxKey)
KeysInOrder(l) == [i \in 1..Len(l) |-> l[i].key]
Reverse(s) == [i \in 1..Len(s) |-> s[Len(s) + 1 - i]]

\* C10: the matched nodes of the middle part that getSequence picked are
\* not moved and every other matched node is moved once, so the moves
\* number the matched middle nodes less the length of their longest
\* increasing subsequence; a reversed list is patched with at most N moves
\* and no mount or unmount; [1, 2, 3] to [3, 1, 2] moves key 3 only.
C10_MovesOutsideSequence ==
    /\ \A k \in ChildKeys : moveCount[k] <= 1
    /\ \A i \in 1..Len(lastMap) :
          moveCount[children[lastS2 + i].key] =
              IF i \in Matched /\ lastSeq # <<>> /\ i \notin Stable THEN 1 ELSE 0
    /\ \A i \in 1..Len(children) :
          (i <= lastS2 \/ i > lastS2 + Len(lastMap)) =>
              moveCount[children[i].key] = 0
    /\ TotalMoves = Cardinality(Matched) - LongestIncreasing(lastMap)
    /\ (/\ KeysInOrder(children) = Reverse(KeysInOrder(prevChildren))
        /\ \A i \in 1..Len(children) :
              children[i].type = ChildWithKey(prevChildren, children[i].key).type)
       => /\ TotalMoves <= Len(children)
          /\ \A k \in ChildKeys : mountCount[k] = 0 /\ unmountCount[k] = 0
    /\ (/\ KeysInOrder(prevChildren) = <<1, 2, 3>>
        /\ KeysInOrder(children) = <<3, 1, 2>>)
       => moveCount = [k \in ChildKeys |-> IF k = 3 THEN 1 ELSE 0]

\* [1, 2, 3] was patched to [3, 1, 2] by one move, of the node of key 3
C10_Witness ==
    /\ KeysInOrder(prevChildren) = <<1, 2, 3>>
    /\ KeysInOrder(children) = <<3, 1, 2>>
    /\ lastMap = <<3, 1, 2>> /\ lastSeq = <<1, 2>>
    /\ moveCount = [k \in ChildKeys |-> IF k = 3 THEN 1 ELSE 0]
    /\ HostInOrder
(***************************************************************************)
(* Statements about Suspense (SpecSuspense).                               *)
(***************************************************************************)
Resolved ==
    susMounted /\ ~suspense.isUnmounted /\ suspense.pendingBranch = NoBranch

\* C11: a boundary whose pending branch registered dependencies shows the
\* fallback until they settle; resolve is called at most once for a pending
\* branch and only when no dependency registered under it is still awaited
\* (a dependency whose component was unmounted counts as no longer awaited);
\* afterwards the fallback is unmounted, the former pending branch is the
\* active branch and is in the container, and no pending branch remains.
C11_ResolveOnceAfterAllSettled ==
    /\ \A g \in 0..MaxPendingId : resolveCount[g] <= 1
    /\ leftBehind = {}
    /\ thrown = ""
    /\ (susMounted /\ ~suspense.isUnmounted /\ suspense.pendingId = 0
          /\ Awaited(Boundary) # {})
         => /\ suspense.pendingBranch # NoBranch
            /\ suspense.activeBranch = Fallback
            /\ container = {Fallback}
    /\ Resolved
         => /\ suspense.activeBranch \in BranchTypes
            /\ container = {suspense.activeBranch}
            /\ ~suspense.isInFallback

\* C28: while the boundary is pending, deps is the number of dependencies
\* registered under the pending branch of now that have neither settled
\* nor been unmounted; deps is never negative.
C28_DepsCountsAwaited ==
    /\ suspense.deps >= 0
    /\ (susMounted /\ ~suspense.isUnmounted
          /\ suspense.pendingBranch # NoBranch)
         => suspense.deps = Cardinality(Awaited(Boundary))

\* the settlement of i comes after the pending branch it was registered
\* under was discarded, after the boundary was unmounted or after its own
\* component was unmounted
Stale(i) ==
    \/ instance[i].suspenseId # suspense.pendingId
    \/ suspense.isUnmounted
    \/ instance[i].removed

\* C29: a stale settlement has no effect: the boundary (deps included) is
\* unchanged, no render effect is set up for the component, no hook is
\* queued and resolve is not called.
C29_StaleSettlementHasNoEffect ==
    [][\A i \in Instances : (Settle(i) /\ Stale(i)) =>
          /\ suspense' = suspense
          /\ instance'[i].asyncResolved = instance[i].asyncResolved
          /\ susPostCbs' = susPostCbs
          /\ resolveCount' = resolveCount
          /\ container' = container]_vars

\* C30: resolve() is not called without resume on a boundary that has no
\* pending branch, and not on an unmounted boundary.
C30_ResolveNeedsPendingBranch ==
    /\ thrown # "resolve() is called without a pending branch"
    /\ thrown # "resolve() is called on an unmounted boundary"

\* the post-render effect cb has run
RanCb(cb) ==
    IF cb[1] = "unmounted" THEN instance[cb[2]].isUnmounted
    ELSE instance[cb[2]].mounted

\* how often cb occurs in the list fns
TimesIn(cb, fns) == Cardinality({n \in 1..Len(fns) : fns[n] = cb})

\* the boundary resolves the pending branch it had before the step
ResolvesNow ==
    /\ suspense.pendingBranch # NoBranch
    /\ suspense'.pendingBranch = NoBranch
    /\ suspense'.pendingId = suspense.pendingId

\* C31, first half: an effect buffered by the boundary, or by a parent that
\* has a pending branch, has not run.
C31_BufferedHasNotRun ==
    /\ \A cb \in Range(suspense.effects) : ~RanCb(cb)
    /\ \A k \in PendingIn(susParents) :
          \A cb \in Range(susParents[k].effects) : ~RanCb(cb)

\* C31: an effect buffered by a boundary with a pending branch does not run
\* before the boundary resolves; when it resolves, every buffered effect is
\* handed over once, to the nearest parent that has a pending branch if
\* there is one and else to the post-flush queue, and the buffer of the
\* boundary is left empty.
C31_BufferedHandedOverAtResolve ==
    [][/\ C31_BufferedHasNotRun'
       /\ ResolvesNow =>
             LET pending == PendingIn(susParents)
                 buffered == suspense.effects
             IN  /\ suspense'.effects = <<>>
                 /\ IF pending # {}
                    THEN LET k == CHOOSE x \in pending :
                                      \A y \in pending : x <= y
                         IN  /\ \A cb \in Range(buffered) :
                                   /\ TimesIn(cb, susParents'[k].effects)
                                          = TimesIn(cb, susParents[k].effects)
                                            + TimesIn(cb, buffered)
                                   /\ cb \notin Range(susPostCbs')
                                   /\ ~RanCb(cb)'
                             /\ \A j \in 1..Len(susParents) :
                                   j # k => susParents'[j] = susParents[j]
                    ELSE /\ \A cb \in Range(buffered) :
                               RanCb(cb)' \/ cb \in Range(susPostCbs')
                         /\ susParents' = susParents]_vars

\* the boundary resolved and handed effects to a parent that is pending,
\* past a nearer parent that is not
C31_Witness ==
    /\ suspense.pendingBranch = NoBranch
    /\ resolveCount[suspense.pendingId] > 0
    /\ Len(susParents) = 2
    /\ ~susParents[1].pendingBranch
    /\ susParents[2].pendingBranch /\ susParents[2].effects # <<>>

\* the promise of dependency i rejects in this step and the callback of
\* registerDep gets past its test of isUnmounted and pendingId
RejectCounts(i) ==
    /\ Reject(i)
    /\ instance[i].isInPendingSuspense
    /\ ~instance[i].isUnmounted
    /\ ~suspense.isUnmounted
    /\ suspense.pendingId = instance[i].suspenseId

\* C32: a setup promise that rejects counts as settled: the error is
\* reported, deps is decremented, and when it was the last dependency the
\* boundary has no pending branch afterwards.
C32_RejectionCountsAsSettled ==
    [][\A i \in Instances :
          RejectCounts(i) =>
              /\ i \in susReported'
              /\ instance'[i].settled
              /\ suspense'.deps = suspense.deps - 1
              /\ suspense'.deps = 0 => suspense'.pendingBranch = NoBranch]_vars

\* the last dependency of a pending boundary rejected and the boundary
\* resolved
C32_Witness ==
    /\ susReported # {}
    /\ \E i \in susReported :
          /\ instance[i].asyncResolved
          /\ instance[i].tree = "active"
    /\ suspense.pendingBranch = NoBranch /\ suspense.deps = 0
    /\ thrown = ""
    /\ \A i \in Instances : instance[i].settled => i \in susReported
(***************************************************************************)
(* Statements about KeepAlive (SpecKeepAlive).                             *)
(***************************************************************************)
\* C12: with props.max = m, after every render the access-order key set
\* holds at most m keys, and the key pruned on overflow is the one rendered
\* least recently among the keys of the set.
C12_AtMostMaxLeastRecentPruned ==
    /\ Len(keys) <= kaMax
    /\ evicted.lru

\* C13: an entry evicted because max is exceeded has its component instance
\* really unmounted by the end of the render, and no instance that stays
\* cached or is rendered now is unmounted or has lost its keep-alive flag.
C13_EvictedTornDownOthersKept ==
    /\ evicted.key # NoKey
         => /\ evicted.comp # 0
            /\ comps[evicted.comp].unmounts >= 1
    /\ \A k \in CacheKeys :
         cache[k] # 0 => comps[vnodes[cache[k]].component].scopeActive
    /\ (subTree # 0 /\ kaThrown = "")
         => /\ comps[vnodes[subTree].component].scopeActive
            /\ vnodes[subTree].shouldKeepAlive

\* the vnode a render replaced and the component it held
Replaced ==
    /\ subTree # 0
    /\ subTree' # subTree
    /\ ~(/\ vnodes'[subTree'].type = vnodes[subTree].type
         /\ vnodes'[subTree'].key = vnodes[subTree].key)

Created(cs) == {i \in VNodeIds : cs[i].place # "none"}

Cached == {k \in CacheKeys : cache[k] # 0}

\* C38: pruneCacheEntry is never called with a key that has no entry in the
\* cache map, and when a flush has run its post-flush callbacks the cache
\* map and the access-order set hold the same keys.
C38_PrunedKeyIsCached ==
    /\ kaThrown # "TypeError: cached is undefined"
    /\ (kaPostCbs = <<>> /\ kaThrown = "") => Cached = Range(keys)

\* the second half of C38 alone
C38_SameKeysAfterFlush ==
    (kaPostCbs = <<>> /\ kaThrown = "") => Cached = Range(keys)

\* C36: the unmount of KeepAlive leaves the component instance of every
\* cached vnode really unmounted, and unmounted once.
C36_UnmountTearsDownEveryCached ==
    [][UnmountKeepAlive =>
          \A k \in Cached :
              LET i == vnodes[cache[k]].component
              IN  /\ comps'[i].unmounts = 1
                  /\ ~comps'[i].scopeActive
                  /\ comps'[i].place = "gone"]_vars
(***************************************************************************)
(* Statements about effect scopes.                                         *)
(***************************************************************************)
\* the scope sc and the non-detached scopes created below it
RECURSIVE Descendants(_)
Descendants(sc) ==
    {sc} \cup UNION {Descendants(c) : c \in {d \in ScopeIds : CreatedIn(d) = sc}}

\* the effects recorded in sc and in its non-detached descendants
EffectsBelow(sc) == UNION {Range(RecordedIn(d)) : d \in Descendants(sc)}

Stopped(sc) == ~effectScopes[sc].active

\* the effects recorded below some stopped scope
EffectsOfStopped == UNION {EffectsBelow(sc) : sc \in {d \in ScopeIds : Stopped(d)}}

\* the step is a state change whose trigger calls the function of e
TriggerInvokes(e) ==
    /\ Len(frames) > 0 /\ Top.kind = "trig"
    /\ Len(frames') = Len(frames) + 1
    /\ frames'[Len(frames')].e = e

\* the effects and the cleanups below a stopped scope
ScopeIsInert(sc) ==
    /\ \A e \in EffectsBelow(sc) :
          ~active[e] /\ deps[e] = <<>> /\ \A s \in Slots : ~Subscribed(e, s)
    /\ \A d \in Descendants(sc) : effectScopes[d].cleanups = 1

\* C19: once a scope is stopped, every effect recorded in it and in its
\* non-detached descendants is inactive and in no Dep, every cleanup has run
\* exactly once, stop() on it again changes nothing, and no state change
\* invokes one of those effects.
C19_StoppedScopeIsInert ==
    /\ [](\A sc \in ScopeIds : Stopped(sc) => ScopeIsInert(sc))
    /\ [][/\ \A sc \in ScopeIds : (Stopped(sc) /\ ScopeStop(sc)) =>
                UNCHANGED <<active, deps, dep, onStopCalls, effectScopes>>
          /\ \A e \in EffectsOfStopped : ~TriggerInvokes(e)]_vars


\* the call of scope.run that a step leaves
LeftRun == scopeCalls[Len(scopeCalls)]

\* C35: when scope.run(fn) returns or throws, the active effect scope and the
\* effect-scope stack are what they were before the call, for any nesting
\* of scopes and also when fn stopped the scope it runs in.
C35_RunRestoresScopeStack ==
    [][\A threw \in BOOLEAN :
          ScopeRunExit(threw) =>
              /\ activeEffectScope' = LeftRun.active
              /\ effectScopeStack' = LeftRun.stack]_vars

\* a run returned after the function stopped the scope it ran in
C35_StoppedInsideRun ==
    /\ scopeCalls = <<>>
    /\ \E sc \in ScopeIds : ~effectScopes[sc].active /\ activeEffectScope = sc
(***************************************************************************)
(* Statements about run(), the tracking stack and the reactive array.      *)
(***************************************************************************)
\* the index in frames of the call the step leaves (by return or by an
\* error), 0 if the step leaves none
LeftIndex ==
    IF Len(frames') >= Len(frames) THEN 0
    ELSE IF Top.kind = "throw" THEN Len(frames) - 1
    ELSE Len(frames)

\* the step leaves a call of the given kind
Leaves(kind) == LeftIndex > 0 /\ frames[LeftIndex].kind = kind

\* C24: when run() of an active effect returns or throws, activeEffect,
\* shouldTrack, trackStack, effectStack, effectTrackDepth and trackOpBit
\* are what they were when run() was entered.
C24_RunRestoresTrackingState ==
    [][Leaves("run") => Saved' = frames[LeftIndex].at]_vars

\* C25: the reads an instrumented array method makes subscribe no effect,
\* and when the method returns or throws shouldTrack and trackStack are
\* what they were before the call.
C25_ArrayMethodPausesTracking ==
    [][/\ CallPush => (dep' = dep /\ deps' = deps)
       /\ Leaves("method") =>
             /\ shouldTrack' = frames[LeftIndex].at.shouldTrack
             /\ trackStack' = frames[LeftIndex].at.trackStack]_vars

\* the effects subscribed to the Dep of length or of an index >= n
SubscribedFrom(n) ==
    {e \in Effects :
        \/ e \in Range(dep["length"])
        \/ \E k \in ArrSlots :
              isIntegerKey(k) /\ keyIndex(k) >= n /\ e \in Range(dep[k])}

\* C26: arr.length = n hands to triggerEffects exactly the effects
\* subscribed to the Dep of length or to the Dep of an index >= n.
C26_LengthSetInvokesTruncated ==
    [][\A n \in 0..MaxLength : SetLength(n) =>
          /\ frames'[Len(frames')].kind = "trig"
          /\ Range(frames'[Len(frames')].rest) = SubscribedFrom(n)]_vars
(***************************************************************************)
(* Statements about getSequence (SpecSequence).                            *)
(***************************************************************************)
\* seq is a strictly ascending list of 0-based indexes of arr whose entries
\* are not 0 and strictly increase
IncreasingIn(arr, seq) ==
    /\ \A k \in 1..Len(seq) : seq[k] \in 0..(Len(arr) - 1) /\ arr[seq[k] + 1] # 0
    /\ \A k \in 1..(Len(seq) - 1) :
          seq[k] < seq[k + 1] /\ arr[seq[k] + 1] < arr[seq[k + 1] + 1]

\* the length of a longest strictly increasing subsequence of the entries
\* of arr that are not 0
LongestIn(arr) ==
    LET good == {S \in SUBSET (1..Len(arr)) :
                    /\ \A i \in S : arr[i] # 0
                    /\ \A i, j \in S : i < j => arr[i] < arr[j]}
    IN  CHOOSE n \in 0..Len(arr) :
            /\ \E S \in good : Cardinality(S) = n
            /\ \A S \in good : Cardinality(S) <= n

\* C40 as stated: getSequence returns a strictly ascending list of indexes
\* i with arr[i] != 0 whose values strictly increase, and no longer such
\* list exists.
C40_LongestIncreasingOfOldNodes ==
    seqOut # NotCalled =>
        /\ IncreasingIn(seqArr, seqOut)
        /\ Len(seqOut) = LongestIn(seqArr)

\* what getSequence returned, without the index 0 of a first entry 0
SeqCore == IF seqArr[1] = 0 THEN Tail(seqOut) ELSE seqOut

\* C40: for a non-empty array of entries >= 0, the list getSequence returns
\* starts with index 0 when arr[0] = 0; apart from that index it is a
\* strictly ascending list of indexes i with arr[i] != 0 whose values
\* strictly increase, and no longer such list exists.
C40_LongestIncreasingAfterLeadingZero ==
    seqOut # NotCalled =>
        /\ seqOut # <<>>
        /\ seqArr[1] = 0 => seqOut[1] = 0
        /\ IncreasingIn(seqArr, SeqCore)
        /\ Len(SeqCore) = LongestIn(seqArr)

\* getSequence returned for an array with new nodes, the first one
\* included, and old nodes that are partly out of order
C40_Witness ==
    /\ seqOut # NotCalled
    /\ seqArr = <<0, 2, 1, 3>>
    /\ Len(seqOut) = 3

\* the effects the flush of this step triggers
NotifiedNow == dcNotified'

WatchStopped == ~active["free"]

\* C37: after the stop handle was called the callback is not invoked any
\* more, also when the job was queued before, and the source effect is
\* subscribed to no Dep.
C37_StoppedWatcherIsSilent ==
    /\ ~wCalledAfterStop
    /\ (WatchStopped /\ wJob = "idle" /\ frames = <<>>) =>
           \A s \in Slots : "free" \notin Range(dep[s])

\* the first half of C37 alone
C37_NoCallbackAfterStop == ~wCalledAfterStop
====
